---- MODULE Spec2Model ----
(***************************************************************************)
(* A model of the safekeeper (walkeeper/src/wal_service.rs): the codec of  *)
(* the wire records, the control file, the WAL segment writer, the tenant  *)
(* state with its notifier, and the ingest and egress connection handlers. *)
(*                                                                         *)
(* Scaling.  LSNs, terms, uuids and sizes are small naturals; the block    *)
(* size XLOG_BLCKSZ and the segment sizes are scaled down with them.       *)
(* Records are packed to bytes (0..255) with the widths of the source.     *)
(***************************************************************************)
EXTENDS Integers, Sequences, FiniteSets, TLC

(***************************************************************************)
(* Bounds of the model.                                                    *)
(***************************************************************************)
\* Scaled block size (8192 in xlog_utils); segment sizes are multiples of it.
XLOG_BLCKSZ == 2
\* Largest LSN a proposer names in a request.
MaxLsn == 4
\* Largest start position handed to write_wal_file in the segment-writer specification.
MaxWalPos == 3
\* Longest buffer handed to write_wal_file in the segment-writer specification.
MaxBufLen == 3
\* Largest term of a proposer.
MaxTerm == 2

(***************************************************************************)
(* Program constants.                                                      *)
(***************************************************************************)
\* 0xCafeCeef does not fit TLC's integers: the u32 is carried as its four
\* little-endian bytes EF CE FE CA, which is what put_u32_le appends.
SK_MAGIC == <<239, 206, 254, 202>>
SK_FORMAT_VERSION == 1
SK_PROTOCOL_VERSION == 1
UNKNOWN_SERVER_VERSION == 0
END_OF_STREAM == 0
MAX_SEND_SIZE == XLOG_BLCKSZ * 16
\* mem::size_of::<SafeKeeperInfo>() for the repr(C) layout with 8-byte
\* aligned u128 (x86_64): 4 + 4 + 8 + 56 + 8 + 8 + 8.
SIZE == 96
\* u64::MAX (END_REPLICATION_MARKER, the initial xmin), as the largest integer.
U64_MAX == 2147483647
END_REPLICATION_MARKER == U64_MAX

Min(a, b) == IF a < b THEN a ELSE b
Max(a, b) == IF a > b THEN a ELSE b

(***************************************************************************)
(* NodeId and its derived order (term first, then uuid).                   *)
(***************************************************************************)
NodeId(term, uuid) == [term |-> term, uuid |-> uuid]

NodeIdLess(a, b) ==
    \/ a.term < b.term
    \/ a.term = b.term /\ a.uuid < b.uuid

(***************************************************************************)
(* Codec: BytesMut put_* / get_* and the Serializer implementations.       *)
(***************************************************************************)
RECURSIVE put_le(_, _)
put_le(v, n) == IF n = 0 THEN <<>> ELSE <<v % 256>> \o put_le(v \div 256, n - 1)

RECURSIVE put_be(_, _)
put_be(v, n) == IF n = 0 THEN <<>> ELSE put_be(v \div 256, n - 1) \o <<v % 256>>

RECURSIVE from_le(_)
from_le(s) == IF s = <<>> THEN 0 ELSE Head(s) + 256 * from_le(Tail(s))

RECURSIVE from_be(_)
from_be(s) ==
    IF s = <<>> THEN 0 ELSE 256 * from_be(SubSeq(s, 1, Len(s) - 1)) + s[Len(s)]

\* get_*: the value of the first n bytes and the rest of the buffer.
get_le(buf, n) == [v |-> from_le(SubSeq(buf, 1, n)), rest |-> SubSeq(buf, n + 1, Len(buf))]
get_be(buf, n) == [v |-> from_be(SubSeq(buf, 1, n)), rest |-> SubSeq(buf, n + 1, Len(buf))]
get_raw(buf, n) == [v |-> SubSeq(buf, 1, n), rest |-> SubSeq(buf, n + 1, Len(buf))]

\* buf.put_u128_le(self.uuid); buf.put_u64(self.term) // !!! only put_u64 is big-endian
NodeId_pack(id) == put_le(id.uuid, 16) \o put_be(id.term, 8)

\* uuid: buf.get_u128_le(), term: buf.get_u64()
NodeId_unpack(buf) ==
    LET uuid == get_le(buf, 16)
        term == get_be(uuid.rest, 8)
    IN  [v |-> [term |-> term.v, uuid |-> uuid.v], rest |-> term.rest]

ServerInfo_pack(s) ==
    put_le(s.protocol_version, 4) \o put_le(s.pg_version, 4) \o NodeId_pack(s.node_id)
        \o put_le(s.system_id, 8) \o put_le(s.wal_end, 8) \o put_le(s.timeline, 4)
        \o put_le(s.wal_seg_size, 4)

ServerInfo_unpack(buf) ==
    LET protocol_version == get_le(buf, 4)
        pg_version == get_le(protocol_version.rest, 4)
        node_id == NodeId_unpack(pg_version.rest)
        system_id == get_le(node_id.rest, 8)
        wal_end == get_le(system_id.rest, 8)
        timeline == get_le(wal_end.rest, 4)
        wal_seg_size == get_le(timeline.rest, 4)
    IN  [v |-> [protocol_version |-> protocol_version.v,
                pg_version |-> pg_version.v,
                node_id |-> node_id.v,
                system_id |-> system_id.v,
                wal_end |-> wal_end.v,
                timeline |-> timeline.v,
                wal_seg_size |-> wal_seg_size.v],
         rest |-> wal_seg_size.rest]

SafeKeeperInfo_pack(i) ==
    i.magic \o put_le(i.format_version, 4) \o put_le(i.epoch, 8) \o ServerInfo_pack(i.server)
        \o put_le(i.commit_lsn, 8) \o put_le(i.flush_lsn, 8) \o put_le(i.restart_lsn, 8)

SafeKeeperInfo_unpack(buf) ==
    LET magic == get_raw(buf, 4)
        format_version == get_le(magic.rest, 4)
        epoch == get_le(format_version.rest, 8)
        server == ServerInfo_unpack(epoch.rest)
        commit_lsn == get_le(server.rest, 8)
        flush_lsn == get_le(commit_lsn.rest, 8)
        restart_lsn == get_le(flush_lsn.rest, 8)
    IN  [v |-> [magic |-> magic.v,
                format_version |-> format_version.v,
                epoch |-> epoch.v,
                server |-> server.v,
                commit_lsn |-> commit_lsn.v,
                flush_lsn |-> flush_lsn.v,
                restart_lsn |-> restart_lsn.v],
         rest |-> restart_lsn.rest]

\* SafeKeeperInfo::new()
SafeKeeperInfo_new ==
    [magic |-> SK_MAGIC,
     format_version |-> SK_FORMAT_VERSION,
     epoch |-> 0,
     server |-> [protocol_version |-> SK_PROTOCOL_VERSION,
                 pg_version |-> UNKNOWN_SERVER_VERSION,
                 node_id |-> NodeId(0, 0),
                 system_id |-> 0,
                 wal_end |-> 0,
                 timeline |-> 0,
                 wal_seg_size |-> 0],
     commit_lsn |-> 0,
     flush_lsn |-> 0,
     restart_lsn |-> 0]

(***************************************************************************)
(* WAL segment files.  A directory is a function from file names to byte   *)
(* sequences; a name is the timeline, the segment number and whether it    *)
(* carries the ".partial" suffix.                                          *)
(***************************************************************************)
XLogSegmentOffset(xlogptr, wal_seg_size) == xlogptr % wal_seg_size
XLByteToSeg(xlogptr, wal_seg_size) == xlogptr \div wal_seg_size
XLogFileName(timeline, segno, partial) ==
    [tli |-> timeline, segno |-> segno, partial |-> partial]

Zeros(n) == [i \in 1..n |-> 0]

\* seek(SeekFrom::Start(off)) then write_all(bytes): overwrite in place, and
\* extend the file (a hole reads as zeros) when the write goes past its end.
WriteAt(content, off, bytes) ==
    [i \in 1..Max(Len(content), off + Len(bytes)) |->
        IF i > off /\ i <= off + Len(bytes) THEN bytes[i - off]
        ELSE IF i <= Len(content) THEN content[i]
        ELSE 0]

\* OpenOptions::new().create(true).write(true) followed by the zero blocks.
CreateZeroFilled(dir, name, wal_seg_size) ==
    [n \in DOMAIN dir \cup {name} |->
        IF n = name THEN Zeros((wal_seg_size \div XLOG_BLCKSZ) * XLOG_BLCKSZ) ELSE dir[n]]

\* fs::rename(from, to)
Rename(dir, from, to) ==
    [n \in (DOMAIN dir \ {from}) \cup {to} |-> IF n = to THEN dir[from] ELSE dir[n]]

\* The completed segment keeps its .partial name.
RolloverMissed(dir, from, to) == dir

\* if partial { fs::rename(&wal_file_partial_path, &wal_file_path)?; }
Rollover(dir, from, to) == Rename(dir, from, to)

\* The offset of the next chunk keeps counting across the boundary.
NextXlogoffNoReset(at_end, xlogoff, bytes_to_write) == xlogoff + bytes_to_write

\* xlogoff += bytes_to_write; ... if at the end of a segment { xlogoff = 0; }
NextXlogoff(at_end, xlogoff, bytes_to_write) ==
    IF at_end THEN 0 ELSE xlogoff + bytes_to_write

\* The body of `while bytes_left != 0`; `fuel` is the number of iterations
\* that complete before an I/O error ends the call (none when fuel >= Len(buf)).
RECURSIVE write_wal_loop(_, _, _, _, _, _, _)
write_wal_loop(dir, start_pos, xlogoff, timeline, wal_seg_size, buf, fuel) ==
    IF Len(buf) = 0 \/ fuel = 0 THEN dir
    ELSE
        LET bytes_left == Len(buf)
            bytes_to_write ==
                IF xlogoff + bytes_left > wal_seg_size
                THEN wal_seg_size - xlogoff
                ELSE bytes_left
            segno == XLByteToSeg(start_pos, wal_seg_size)
            wal_file_path == XLogFileName(timeline, segno, FALSE)
            wal_file_partial_path == XLogFileName(timeline, segno, TRUE)
            partial == wal_file_path \notin DOMAIN dir
            opened ==
                IF wal_file_path \in DOMAIN dir \/ wal_file_partial_path \in DOMAIN dir
                THEN dir
                ELSE CreateZeroFilled(dir, wal_file_partial_path, wal_seg_size)
            target == IF partial THEN wal_file_partial_path ELSE wal_file_path
            written ==
                [opened EXCEPT ![target] = WriteAt(@, xlogoff, SubSeq(buf, 1, bytes_to_write))]
            new_start == start_pos + bytes_to_write
            at_end == XLogSegmentOffset(new_start, wal_seg_size) = 0
            renamed ==
                IF at_end /\ partial
                THEN Rollover(written, wal_file_partial_path, wal_file_path)
                ELSE written
        IN  write_wal_loop(renamed, new_start, NextXlogoff(at_end, xlogoff, bytes_to_write),
                           timeline, wal_seg_size,
                           SubSeq(buf, bytes_to_write + 1, Len(buf)), fuel - 1)

\* Connection::write_wal_file, when no I/O error occurs.
write_wal_file(dir, startpos, timeline, wal_seg_size, buf) ==
    write_wal_loop(dir, startpos, XLogSegmentOffset(startpos, wal_seg_size),
                   timeline, wal_seg_size, buf, Len(buf))

\* The file that holds a segment, as a reader finds it: either name.
SegmentFile(dir, timeline, segno) ==
    IF XLogFileName(timeline, segno, TRUE) \in DOMAIN dir
    THEN XLogFileName(timeline, segno, TRUE)
    ELSE XLogFileName(timeline, segno, FALSE)

SegmentExists(dir, timeline, segno) == SegmentFile(dir, timeline, segno) \in DOMAIN dir

\* The byte at a logical WAL position, -1 when no file holds that position.
WalByteAt(dir, timeline, wal_seg_size, pos) ==
    LET name == SegmentFile(dir, timeline, XLByteToSeg(pos, wal_seg_size))
        off == XLogSegmentOffset(pos, wal_seg_size)
    IN  IF name \in DOMAIN dir /\ off < Len(dir[name]) THEN dir[name][off + 1] ELSE -1


\* Find last WAL record (xlog_utils::find_end_of_wal): the end of the valid WAL
\* of the highest segment and its timeline.  A finalized segment is complete; in
\* a partial one the scan stops at the trailing zeros when `precise`, and at its
\* start otherwise.  An empty directory is at LSN 0 of the first timeline.
FIRST_TIMELINE == 1

ValidLen(content) ==
    LET nz == {i \in 1..Len(content) : content[i] # 0}
    IN  IF nz = {} THEN 0 ELSE CHOOSE i \in nz : \A j \in nz : j <= i

find_end_of_wal(dir, wal_seg_size, precise) ==
    IF DOMAIN dir = {} \/ wal_seg_size = 0
    THEN [lsn |-> 0, timeline |-> FIRST_TIMELINE]
    ELSE
        LET high == CHOOSE n \in DOMAIN dir : \A m \in DOMAIN dir : m.segno <= n.segno
            offs == IF precise THEN ValidLen(dir[high]) ELSE 0
        IN  [lsn |-> IF high.partial
                     THEN high.segno * wal_seg_size + offs
                     ELSE (high.segno + 1) * wal_seg_size,
             timeline |-> high.tli]

(***************************************************************************)
(* State.                                                                  *)
(***************************************************************************)
VARIABLES
    data_dir,   \* conf.data_dir: tenant id -> its control file and WAL segments
    SYSTEMS,    \* the registry: tenant id -> System (lost when the process dies)
    conn,       \* the connection tasks, each at one of its suspension points
    synced,     \* history: tenant id -> the info of the last save_control_file(true)
    written,    \* history: tenant id -> the info save_control_file wrote last
    wal_ref,    \* history: tenant id -> the bytes written, by WAL position
    ev          \* history: what the last step did

vars == <<data_dir, SYSTEMS, conn, synced, written, wal_ref, ev>>

\* Connections; the first four bytes a peer sends select the protocol.
Ingests == {1, 2}
Egresses == {3}
Conns == Ingests \cup Egresses

NoSystem == -1
EmptyFn == [x \in {} |-> 0]
NoMsg == [type |-> "none"]
NoInput == [type |-> "none"]

\* The proposers' inputs.
TENANT == 42
PG_VERSION == 13
\* The one segment size the proposers of a tenant announce.
WAL_SEG_SIZE == XLOG_BLCKSZ
ProposerIds == {NodeId(t, u) : t \in 1..MaxTerm, u \in 0..1}
ServerInfo(protocol_version, system_id) ==
    [protocol_version |-> protocol_version, pg_version |-> PG_VERSION,
     node_id |-> NodeId(MaxTerm, 1), system_id |-> system_id, wal_end |-> 0,
     timeline |-> FIRST_TIMELINE, wal_seg_size |-> WAL_SEG_SIZE]
RequestVote(node_id, vcl, epoch) == [node_id |-> node_id, vcl |-> vcl, epoch |-> epoch]
SafeKeeperRequest(sender_id, begin_lsn, end_lsn, restart_lsn, commit_lsn) ==
    [sender_id |-> sender_id, begin_lsn |-> begin_lsn, end_lsn |-> end_lsn,
     restart_lsn |-> restart_lsn, commit_lsn |-> commit_lsn]
\* The WAL bytes that follow a request header.
Payload(req) == [i \in 1..(req.end_lsn - req.begin_lsn) |-> req.sender_id.term]
\* Outcomes of the file system calls of one save_control_file.
IoOutcomes == {"ok", "write_err", "sync_err"}

\* System::new(id); `control_file` is whether the locked handle is held.
System_new(id) ==
    [id |-> id,
     commit_lsn |-> 0,
     info |-> SafeKeeperInfo_new,
     control_file |-> FALSE,
     hs_feedback |-> [ts |-> 0, xmin |-> U64_MAX, catalog_xmin |-> U64_MAX]]

\* A tenant directory: the control file as the OS holds it (`control`), the
\* part of it that reached the disk (`durable`), and the WAL segment files.
TenantDir_new == [control_exists |-> FALSE, control |-> <<>>, durable |-> <<>>, wal |-> EmptyFn]

Connection_new ==
    [pc |-> "idle", system |-> NoSystem,
     my_info |-> SafeKeeperInfo_new, prop |-> NoInput, req |-> NoInput,
     flushed_restart_lsn |-> 0, timeline |-> 0, wal_seg_size |-> 0, out |-> NoMsg,
     start_pos |-> 0, stop_pos |-> 0, end_pos |-> 0, commit_lsn |-> 0,
     notified |-> "none", wal_file |-> NoInput, guard |-> FALSE, lazy_synced |-> NoInput]

Ev(op, c) ==
    [op |-> op, c |-> c, result |-> "ok", input |-> NoInput, msg |-> NoMsg,
     system |-> NoSystem, wal_write |-> FALSE, ctl_write |-> FALSE, ctl_sync |-> FALSE,
     epoch_switch |-> FALSE, notify |-> -1]

Put(f, k, v) == [x \in DOMAIN f \cup {k} |-> IF x = k THEN v ELSE f[x]]

Init ==
    /\ data_dir = EmptyFn
    /\ SYSTEMS = EmptyFn
    /\ conn = [c \in Conns |-> Connection_new]
    /\ synced = EmptyFn
    /\ written = EmptyFn
    /\ wal_ref = EmptyFn
    /\ ev = Ev("init", 0)

(***************************************************************************)
(* Tenant state.                                                           *)
(***************************************************************************)
\* The wait handles of the senders of a tenant that notify_waiters() completes.
notify_waiters(cs, sid) ==
    [c \in DOMAIN cs |->
        IF cs[c].system = sid /\ cs[c].notified = "created"
        THEN [cs[c] EXCEPT !.notified = "fired"]
        ELSE cs[c]]

\* A notification changes commit_lsn whatever its value.
NotifyAdvancesAlways(current, commit_lsn) == TRUE

\* if shared_state.commit_lsn < commit_lsn
NotifyAdvances(current, commit_lsn) == current < commit_lsn

\* System::notify_wal_senders: the new System record
notify_wal_senders(sys, commit_lsn) ==
    IF NotifyAdvances(sys.commit_lsn, commit_lsn)
    THEN [sys EXCEPT !.commit_lsn = commit_lsn]
    ELSE sys

\* std::sync::Mutex::lock: the caller gets the guard only while no task bound
\* to the tenant holds it.
MutexFree(sid) == \A c \in Conns : conn[c].system = sid => ~conn[c].guard

\* No handle of the process holds the lock of the control file.
LockedNever(systems, sid) == FALSE

\* The exclusive lock of a tenant's control file is held by the handle in its
\* System, which lives as long as the process.
Locked(systems, sid) == sid \in DOMAIN systems /\ systems[sid].control_file

\* save_control_file(sync): seek to 0, write the packed shared info, fsync.
save_control_file(dir, info, sync, io) ==
    IF io = "write_err" THEN dir
    ELSE
        LET file == WriteAt(dir.control, 0, SafeKeeperInfo_pack(info))
        IN  [dir EXCEPT !.control = file,
                        !.durable = IF sync /\ io = "ok" THEN file ELSE @]

\* History: `synced` names the info of a tenant's last save_control_file(true)
\* for as long as the control file holds nothing newer than what was flushed.
SyncedAfter(h, sid, dir, info, did_sync) ==
    IF did_sync THEN Put(h, sid, info)
    ELSE IF dir.control = dir.durable THEN h
    ELSE [x \in DOMAIN h \ {sid} |-> h[x]]

\* The control file is opened and locked but its record is not read.
ControlRecordIgnored(bytes) == [ok |-> FALSE, info |-> SafeKeeperInfo_new]

\* What load_control_file finds: the record of the first SIZE bytes, if there.
ControlRecord(bytes) ==
    IF Len(bytes) >= SIZE
    THEN [ok |-> TRUE, info |-> SafeKeeperInfo_unpack(SubSeq(bytes, 1, SIZE)).v]
    ELSE [ok |-> FALSE, info |-> SafeKeeperInfo_new]


(***************************************************************************)
(* Connections.                                                            *)
(***************************************************************************)
End(c, cs) == [cs EXCEPT ![c] = Connection_new]

\* Connection::run: the first four bytes are zero, the peer is a proposer.
AcceptIngest(c) ==
    /\ c \in Ingests
    /\ conn[c].pc = "idle"
    /\ conn' = [conn EXCEPT ![c].pc = "recv_server_info"]
    /\ ev' = Ev("AcceptIngest", c)
    /\ UNCHANGED <<data_dir, SYSTEMS, synced, written, wal_ref>>

\* A socket read or write of the task fails (EOF, reset): the task ends.
SocketPcs ==
    {"recv_server_info", "send_info", "wait_vote", "send_reject", "send_ack",
     "streaming", "send_resp", "startup", "query", "send_identify", "send_copy",
     "send_frame"}

ConnError(c) ==
    /\ conn[c].pc \in SocketPcs
    /\ conn' = End(c, conn)
    /\ ev' = [Ev("ConnError", c) EXCEPT !.result = "error", !.system = conn[c].system]
    /\ UNCHANGED <<data_dir, SYSTEMS, synced, written, wal_ref>>

\* Every call registers the tenant anew.
RegistryHasNever(systems, id) == FALSE

\* systems.contains_key(&id)
RegistryHas(systems, id) == id \in DOMAIN systems

\* Connection::set_system: the registry and the data directory after the call,
\* and the tenant the connection is bound to (NoSystem: "No active instances").
\* `pick` is the tenant systems.values().next() yields.
set_system(systems, dirs, id, pick) ==
    IF id = 0
    THEN [system |-> IF DOMAIN systems = {} THEN NoSystem ELSE pick,
          systems |-> systems, dirs |-> dirs]
    ELSE [system |-> id,
          systems |-> IF RegistryHas(systems, id) THEN systems ELSE Put(systems, id, System_new(id)),
          dirs |-> IF RegistryHas(systems, id) \/ id \in DOMAIN dirs
                   THEN dirs ELSE Put(dirs, id, TenantDir_new)]

\* /* Update information about server, but preserve locally stored node_id */
\* then the WAL end and the timeline that the scan of the local WAL yields.
MergeServerInfo(my_info, server_info, scan) ==
    [my_info EXCEPT !.server = [server_info EXCEPT !.node_id = my_info.server.node_id,
                                                   !.timeline = scan.timeline],
                    !.flush_lsn = scan.lsn]

\* receive_wal up to the send of SafeKeeperInfo: ServerInfo is read, the tenant
\* is resolved, its control file opened, locked and loaded.
IngestServerInfo(c, server_info) ==
    /\ conn[c].pc = "recv_server_info"
    /\ \E pick \in (IF DOMAIN SYSTEMS = {} THEN {NoSystem} ELSE DOMAIN SYSTEMS) :
        LET bound == set_system(SYSTEMS, data_dir, server_info.system_id, pick)
            sid == bound.system
            e == [Ev("IngestServerInfo", c) EXCEPT !.input = server_info, !.system = sid]
        IN  IF sid = NoSystem
            THEN /\ conn' = End(c, conn)
                 /\ ev' = [e EXCEPT !.result = "error"]
                 /\ UNCHANGED <<data_dir, SYSTEMS, synced, written, wal_ref>>
            ELSE IF Locked(bound.systems, sid)
            THEN \* try_lock_exclusive fails on the second handle: panic!
                 /\ conn' = End(c, conn)
                 /\ ev' = [e EXCEPT !.result = "panic"]
                 /\ SYSTEMS' = bound.systems
                 /\ data_dir' = [bound.dirs EXCEPT ![sid].control_exists = TRUE]
                 /\ UNCHANGED <<synced, written, wal_ref>>
            ELSE
                LET rec == ControlRecord(bound.dirs[sid].control)
                    bad == rec.ok /\ (rec.info.magic # SK_MAGIC
                                      \/ rec.info.format_version # SK_FORMAT_VERSION)
                    loaded == [bound.systems EXCEPT
                                  ![sid].control_file = TRUE,
                                  ![sid].info = IF rec.ok /\ ~bad THEN rec.info ELSE @]
                    my_info == loaded[sid].info
                    scan == find_end_of_wal(bound.dirs[sid].wal, my_info.server.wal_seg_size, TRUE)
                    merged == MergeServerInfo(my_info, server_info, scan)
                IN  /\ SYSTEMS' = loaded
                    /\ data_dir' = [bound.dirs EXCEPT ![sid].control_exists = TRUE]
                    /\ UNCHANGED <<synced, written, wal_ref>>
                    /\ IF bad
                       THEN /\ conn' = End(c, conn)
                            /\ ev' = [e EXCEPT !.result = "panic"]
                       ELSE IF server_info.protocol_version # SK_PROTOCOL_VERSION
                       THEN /\ conn' = End(c, conn)
                            /\ ev' = [e EXCEPT !.result = "error"]
                       ELSE /\ conn' = [conn EXCEPT ![c] =
                                  [@ EXCEPT !.pc = "send_info", !.system = sid,
                                            !.my_info = merged,
                                            !.timeline = scan.timeline,
                                            !.wal_seg_size = server_info.wal_seg_size,
                                            !.out = [type |-> "SafeKeeperInfo", info |-> merged]]]
                            /\ ev' = e

\* self.send().await of the SafeKeeperInfo completes.
IngestSendInfo(c) ==
    /\ conn[c].pc = "send_info"
    /\ conn' = [conn EXCEPT ![c].pc = "wait_vote", ![c].out = NoMsg]
    /\ ev' = [Ev("IngestSendInfo", c) EXCEPT !.msg = conn[c].out, !.system = conn[c].system]
    /\ UNCHANGED <<data_dir, SYSTEMS, synced, written, wal_ref>>

\* The vote is refused when the terms differ only.
VoteRejectedByTerm(prop, my_info) == prop.node_id.term < my_info.server.node_id.term

\* if prop.node_id < my_info.server.node_id
VoteRejected(prop, my_info) == NodeIdLess(prop.node_id, my_info.server.node_id)

\* The vote is written but not flushed.
VoteSyncNone == FALSE

\* self.system().save_control_file(true)
VoteSync == TRUE

\* receive_wal from the read of RequestVote to the send of the answer.
IngestVote(c, prop, io) ==
    /\ conn[c].pc = "wait_vote"
    /\ LET sid == conn[c].system
           my_info == conn[c].my_info
           e == [Ev("IngestVote", c) EXCEPT !.input = prop, !.system = sid]
       IN  IF VoteRejected(prop, my_info)
           THEN /\ io = "ok"
                /\ conn' = [conn EXCEPT ![c].pc = "send_reject", ![c].prop = prop,
                                        ![c].out = [type |-> "NodeId",
                                                    node_id |-> my_info.server.node_id]]
                /\ ev' = [e EXCEPT !.result = "reject"]
                /\ UNCHANGED <<data_dir, SYSTEMS, synced, written, wal_ref>>
           ELSE
               LET voted == [my_info EXCEPT !.server.node_id = prop.node_id]
                   saved == save_control_file(data_dir[sid], voted, VoteSync, io)
               IN  /\ SYSTEMS' = [SYSTEMS EXCEPT ![sid].info = voted]
                   /\ data_dir' = [data_dir EXCEPT ![sid] = saved]
                   /\ synced' = SyncedAfter(synced, sid, saved, voted, io = "ok" /\ VoteSync)
                   /\ written' = IF io = "write_err" THEN written ELSE Put(written, sid, voted)
                   /\ UNCHANGED wal_ref
                   /\ IF io = "ok"
                      THEN /\ conn' = [conn EXCEPT ![c] =
                                 [@ EXCEPT !.pc = "send_ack", !.my_info = voted, !.prop = prop,
                                           !.flushed_restart_lsn = 0,
                                           !.out = [type |-> "NodeId", node_id |-> prop.node_id]]]
                           /\ ev' = [e EXCEPT !.ctl_write = TRUE, !.ctl_sync = VoteSync]
                      ELSE /\ conn' = End(c, conn)
                           /\ ev' = [e EXCEPT !.result = "error", !.ctl_write = (io # "write_err")]

\* The rejection reached the proposer: io_error!("Reject connection attempt ...").
IngestSendReject(c) ==
    /\ conn[c].pc = "send_reject"
    /\ conn' = End(c, conn)
    /\ ev' = [Ev("IngestSendReject", c) EXCEPT !.msg = conn[c].out, !.result = "error",
                                              !.input = conn[c].prop, !.system = conn[c].system]
    /\ UNCHANGED <<data_dir, SYSTEMS, synced, written, wal_ref>>

\* The acknowledgement reached the proposer; request_callback() follows, whose
\* failure is only logged, and the streaming loop starts.
IngestSendAck(c) ==
    /\ conn[c].pc = "send_ack"
    /\ conn' = [conn EXCEPT ![c].pc = "streaming", ![c].out = NoMsg]
    /\ ev' = [Ev("IngestSendAck", c) EXCEPT !.msg = conn[c].out, !.input = conn[c].prop,
                                           !.system = conn[c].system]
    /\ UNCHANGED <<data_dir, SYSTEMS, synced, written, wal_ref>>


\* Any sender may stream on the connection.
SenderChangedNever(req, my_info) == FALSE

\* The end-of-stream check comes first.
SenderChangedUnlessEnd(req, my_info) ==
    req.begin_lsn # END_OF_STREAM /\ req.sender_id # my_info.server.node_id

\* if req.sender_id != my_info.server.node_id
SenderChanged(req, my_info) == req.sender_id # my_info.server.node_id

\* The loop stores its copy with set_info before each save.
StreamSharedInfoSet(info, my_info) == my_info

\* The shared info save_control_file packs in the streaming loop: the loop
\* updates its own copy my_info and never calls set_info.
StreamSharedInfo(info, my_info) == info

\* The iterations write_wal_file needs for `len` bytes at `start`.
NumChunks(start, len, wal_seg_size) ==
    IF len = 0 THEN 0
    ELSE XLByteToSeg(start + len - 1, wal_seg_size) - XLByteToSeg(start, wal_seg_size) + 1

\* The bytes the first k iterations of write_wal_file write.
ChunkBytes(start, len, wal_seg_size, k) ==
    IF k = 0 THEN 0
    ELSE Min(len, wal_seg_size - XLogSegmentOffset(start, wal_seg_size) + (k - 1) * wal_seg_size)

\* History of the bytes written: `bytes` laid over `ref` at `start`.
Overlay(ref, start, bytes) ==
    [p \in DOMAIN ref \cup (start..(start + Len(bytes) - 1)) |->
        IF p >= start /\ p < start + Len(bytes) THEN bytes[p - start + 1] ELSE ref[p]]

RefOf(h, sid) == IF sid \in DOMAIN h THEN h[sid] ELSE EmptyFn

\* A record at position 0 is a record like any other.
IsEndOfStreamNever(req) == FALSE

\* if req.begin_lsn == END_OF_STREAM
IsEndOfStream(req) == req.begin_lsn = END_OF_STREAM

\* commit_lsn is cut at the end of the record.
ReceivedClamped(my_info, req) ==
    [my_info EXCEPT !.restart_lsn = req.restart_lsn,
                    !.commit_lsn = Min(req.commit_lsn, req.end_lsn)]

\* my_info.restart_lsn = req.restart_lsn; my_info.commit_lsn = req.commit_lsn;
Received(my_info, req) ==
    [my_info EXCEPT !.restart_lsn = req.restart_lsn, !.commit_lsn = req.commit_lsn]

\* flush_lsn follows the last record.
FlushLsnLast(flush_lsn, end_pos) == end_pos

\* if end_pos > my_info.flush_lsn { my_info.flush_lsn = end_pos; }
FlushLsn(flush_lsn, end_pos) == IF end_pos > flush_lsn THEN end_pos ELSE flush_lsn

\* The result of save_control_file is dropped.
SavedOrNot(io) == TRUE

\* self.system().save_control_file(sync_control_file)?
Saved(io) == io = "ok"

\* The control file is fsynced on every advance of restart_lsn.
RestartSyncEager(flushed_restart_lsn, wal_seg_size, restart_lsn) ==
    flushed_restart_lsn < restart_lsn

\* flushed_restart_lsn + (wal_seg_size as u64) < my_info.restart_lsn
RestartSync(flushed_restart_lsn, wal_seg_size, restart_lsn) ==
    flushed_restart_lsn + wal_seg_size < restart_lsn

\* The epoch switches on the record that reaches the boundary.
EpochSwitchAtBoundary(my_info, prop, end_pos) ==
    my_info.epoch < prop.epoch /\ end_pos >= Max(my_info.flush_lsn, prop.vcl)

\* if my_info.epoch < prop.epoch && end_pos > max(my_info.flush_lsn, prop.vcl)
EpochSwitch(my_info, prop, end_pos) ==
    my_info.epoch < prop.epoch /\ end_pos > Max(my_info.flush_lsn, prop.vcl)

\* One iteration of the streaming loop up to the send of the response.  `io` is
\* the outcome of save_control_file and `wal_err` the number of iterations of
\* write_wal_file that complete before an I/O error (-1: none).
IngestRequest(c, req, io, wal_err) ==
    /\ conn[c].pc = "streaming"
    /\ LET sid == conn[c].system
           my_info == conn[c].my_info
           prop == conn[c].prop
           e == [Ev("IngestRequest", c) EXCEPT !.input = req, !.system = sid]
           start_pos == req.begin_lsn
           end_pos == req.end_lsn
           rec_size == end_pos - start_pos
           chunks == NumChunks(start_pos, rec_size, conn[c].wal_seg_size)
       IN  IF SenderChanged(req, my_info)
           THEN /\ io = "ok" /\ wal_err = -1
                /\ conn' = End(c, conn)
                /\ ev' = [e EXCEPT !.result = "error"]
                /\ UNCHANGED <<data_dir, SYSTEMS, synced, written, wal_ref>>
           ELSE IF IsEndOfStream(req)
           THEN /\ io = "ok" /\ wal_err = -1
                /\ conn' = End(c, conn)
                /\ ev' = [e EXCEPT !.result = "end"]
                /\ UNCHANGED <<data_dir, SYSTEMS, synced, written, wal_ref>>
           ELSE IF end_pos < start_pos \/ rec_size > MAX_SEND_SIZE
           THEN \* the subtraction overflows or assert!(rec_size <= MAX_SEND_SIZE) fails
                /\ io = "ok" /\ wal_err = -1
                /\ conn' = End(c, conn)
                /\ ev' = [e EXCEPT !.result = "panic"]
                /\ UNCHANGED <<data_dir, SYSTEMS, synced, written, wal_ref>>
           ELSE IF wal_err # -1
           THEN /\ io = "ok" /\ wal_err < chunks
                /\ data_dir' = [data_dir EXCEPT ![sid].wal =
                       write_wal_loop(@, start_pos,
                                      XLogSegmentOffset(start_pos, conn[c].wal_seg_size),
                                      conn[c].timeline, conn[c].wal_seg_size,
                                      Payload(req), wal_err)]
                /\ conn' = End(c, conn)
                /\ ev' = [e EXCEPT !.result = "error", !.wal_write = (wal_err > 0)]
                /\ wal_ref' = Put(wal_ref, sid, Overlay(RefOf(wal_ref, sid), start_pos,
                       SubSeq(Payload(req), 1,
                              ChunkBytes(start_pos, rec_size, conn[c].wal_seg_size, wal_err))))
                /\ UNCHANGED <<SYSTEMS, synced, written>>
           ELSE
               LET wal == write_wal_file(data_dir[sid].wal, start_pos, conn[c].timeline,
                                         conn[c].wal_seg_size, Payload(req))
                   received == Received(my_info, req)
                   switch == EpochSwitch(received, prop, end_pos)
                   bumped == IF switch THEN [received EXCEPT !.epoch = prop.epoch] ELSE received
                   flushed == [bumped EXCEPT !.flush_lsn = FlushLsn(@, end_pos)]
                   lazy == RestartSync(conn[c].flushed_restart_lsn, conn[c].wal_seg_size,
                                       flushed.restart_lsn)
                   sync_control_file == switch \/ lazy
                   shared == StreamSharedInfo(SYSTEMS[sid].info, flushed)
                   saved == save_control_file([data_dir[sid] EXCEPT !.wal = wal],
                                              shared, sync_control_file, io)
                   e2 == [e EXCEPT !.wal_write = (rec_size > 0),
                                   !.ctl_write = (io # "write_err"),
                                   !.ctl_sync = (sync_control_file /\ io = "ok"),
                                   !.epoch_switch = switch]
               IN  /\ data_dir' = [data_dir EXCEPT ![sid] = saved]
                   /\ SYSTEMS' = [SYSTEMS EXCEPT ![sid].info = shared]
                   /\ synced' = SyncedAfter(synced, sid, saved, shared,
                                            io = "ok" /\ sync_control_file)
                   /\ written' = IF io = "write_err" THEN written ELSE Put(written, sid, shared)
                   /\ wal_ref' = Put(wal_ref, sid, Overlay(RefOf(wal_ref, sid), start_pos,
                                                           Payload(req)))
                   /\ IF Saved(io)
                      THEN /\ conn' = [conn EXCEPT ![c] =
                                 [@ EXCEPT !.pc = "send_resp", !.my_info = flushed, !.req = req,
                                           !.flushed_restart_lsn =
                                               IF sync_control_file THEN flushed.restart_lsn ELSE @,
                                           !.lazy_synced =
                                               IF lazy THEN [lsn |-> flushed.restart_lsn] ELSE @,
                                           !.out = [type |-> "SafeKeeperResponse",
                                                    epoch |-> flushed.epoch,
                                                    flush_lsn |-> end_pos,
                                                    hs_feedback |-> SYSTEMS[sid].hs_feedback]]]
                           /\ ev' = e2
                      ELSE /\ conn' = End(c, conn)
                           /\ ev' = [e2 EXCEPT !.result = "error"]

\* The senders are pinged with the commit position the proposer advertises.
NotifyLsnAdvertised(req) == req.commit_lsn

\* The senders are pinged with the flush position.
NotifyLsnFlushed(req) == req.end_lsn

\* min(req.commit_lsn, end_pos)
NotifyLsn(req) == Min(req.commit_lsn, req.end_lsn)

\* The response reached the proposer; the senders are pinged:
\* notify_wal_senders(min(req.commit_lsn, end_pos)).
IngestSendResp(c) ==
    /\ conn[c].pc = "send_resp"
    /\ MutexFree(conn[c].system)
    /\ LET sid == conn[c].system
           lsn == NotifyLsn(conn[c].req)
           sys == notify_wal_senders(SYSTEMS[sid], lsn)
           woken == IF sys # SYSTEMS[sid] THEN notify_waiters(conn, sid) ELSE conn
       IN  /\ SYSTEMS' = [SYSTEMS EXCEPT ![sid] = sys]
           /\ conn' = [woken EXCEPT ![c].pc = "streaming", ![c].out = NoMsg]
           /\ ev' = [Ev("IngestSendResp", c) EXCEPT !.msg = conn[c].out, !.input = conn[c].req,
                                                    !.system = sid, !.notify = lsn]
    /\ UNCHANGED <<data_dir, synced, written, wal_ref>>

\* The process dies (kill, power loss) and is started again: every task and
\* the registry are gone, the locks are released, and of each control file
\* either what the OS held or what had reached the disk remains.
Crash ==
    /\ \E keep \in [DOMAIN data_dir -> BOOLEAN] :
        /\ data_dir' = [id \in DOMAIN data_dir |->
               [data_dir[id] EXCEPT !.control = IF keep[id] THEN @ ELSE data_dir[id].durable,
                                    !.durable = IF keep[id] THEN data_dir[id].control ELSE @]]
        /\ UNCHANGED <<synced, written, wal_ref>>
    /\ SYSTEMS' = EmptyFn
    /\ conn' = [c \in Conns |-> Connection_new]
    /\ ev' = Ev("Crash", 0)


(***************************************************************************)
(* Egress: send_wal and handle_start_replication.                          *)
(***************************************************************************)
\* Connection::run: the first four bytes are a startup packet length.
AcceptEgress(c) ==
    /\ c \in Egresses
    /\ conn[c].pc = "idle"
    /\ conn' = [conn EXCEPT ![c].pc = "startup"]
    /\ ev' = Ev("AcceptEgress", c)
    /\ UNCHANGED <<data_dir, SYSTEMS, synced, written, wal_ref>>

\* StartupRequestCode::Normal: AuthenticationOk and ReadyForQuery are sent,
\* then the tenant named by the system_id option is bound.
EgressStartup(c, id) ==
    /\ conn[c].pc = "startup"
    /\ \E pick \in (IF DOMAIN SYSTEMS = {} THEN {NoSystem} ELSE DOMAIN SYSTEMS) :
        LET bound == set_system(SYSTEMS, data_dir, id, pick)
            e == [Ev("EgressStartup", c) EXCEPT !.system = bound.system,
                                                !.input = [system_id |-> id],
                                                !.msg = [type |-> "AuthenticationOk"]]
        IN  /\ SYSTEMS' = bound.systems
            /\ data_dir' = bound.dirs
            /\ IF bound.system = NoSystem
               THEN /\ conn' = End(c, conn)
                    /\ ev' = [e EXCEPT !.result = "error"]
               ELSE /\ conn' = [conn EXCEPT ![c].pc = "query", ![c].system = bound.system]
                    /\ ev' = e
    /\ UNCHANGED <<synced, written, wal_ref>>

\* format!("{:X}/{:>08X}", (start_pos >> 32) as u32, start_pos as u32): the
\* text is kept as the two words it prints.
FormatLsn(lsn) ==
    [fmt |-> "{:X}/{:>08X}",
     hi |-> (lsn \div 65536) \div 65536,
     lo |-> lsn - ((lsn \div 65536) \div 65536) * 65536 * 65536]

\* to_string() of an integer: the text is kept as the number it prints.
to_string(v) == [fmt |-> "{}", v |-> v]

Null == [fmt |-> "NULL"]

\* handle_identify_system up to the send: the row description, the row, and
\* the end of the command, in one buffer.
IdentifySystem(c) ==
    /\ conn[c].pc = "query"
    /\ MutexFree(conn[c].system)
    /\ LET sid == conn[c].system
           info == SYSTEMS[sid].info
           scan == find_end_of_wal(data_dir[sid].wal, info.server.wal_seg_size, FALSE)
           lsn == FormatLsn(scan.lsn)
           tli == to_string(scan.timeline)
           sysid == to_string(info.server.system_id)
       IN  /\ conn' = [conn EXCEPT ![c].pc = "send_identify",
                                   ![c].out =
                   [type |-> "IdentifySystem",
                    messages |->
                       <<[type |-> "RowDescription",
                          names |-> <<"systemid", "timeline", "xlogpos", "dbname">>],
                         [type |-> "DataRow", values |-> <<lsn, tli, sysid, Null>>],
                         [type |-> "CommandComplete", tag |-> "IDENTIFY_SYSTEM"],
                         [type |-> "ReadyForQuery"]>>]]
           /\ ev' = [Ev("IdentifySystem", c) EXCEPT !.system = sid, !.input = scan]
    /\ UNCHANGED <<data_dir, SYSTEMS, synced, written, wal_ref>>

\* self.send().await of the reply completes; Ok(true) keeps send_wal in its
\* loop.
IdentifySend(c) ==
    /\ conn[c].pc = "send_identify"
    /\ conn' = [conn EXCEPT ![c].pc = "query", ![c].out = NoMsg]
    /\ ev' = [Ev("IdentifySend", c) EXCEPT !.system = conn[c].system, !.msg = conn[c].out]
    /\ UNCHANGED <<data_dir, SYSTEMS, synced, written, wal_ref>>

\* The positions a replica names in START_REPLICATION.
ReplStarts == {0, 1, XLOG_BLCKSZ}
ReplStops == {0, 1, MaxLsn, END_REPLICATION_MARKER}

\* handle_start_replication up to the send of CopyBothResponse.
StartReplication(c, start_pos, stop_pos) ==
    /\ conn[c].pc = "query"
    /\ MutexFree(conn[c].system)
    /\ LET sid == conn[c].system
           wal_seg_size == SYSTEMS[sid].info.server.wal_seg_size
           scan == find_end_of_wal(data_dir[sid].wal, wal_seg_size, FALSE)
           e == [Ev("StartReplication", c) EXCEPT !.system = sid,
                     !.input = [start_pos |-> start_pos, stop_pos |-> stop_pos]]
       IN  IF wal_seg_size = 0
           THEN /\ conn' = End(c, conn)
                /\ ev' = [e EXCEPT !.result = "error"]
           ELSE /\ conn' = [conn EXCEPT ![c] =
                      [@ EXCEPT !.pc = "send_copy",
                                !.start_pos = IF start_pos = 0 THEN scan.lsn ELSE start_pos,
                                !.stop_pos = stop_pos,
                                !.timeline = scan.timeline,
                                !.wal_seg_size = wal_seg_size,
                                !.out = [type |-> "CopyBothResponse"]]]
                /\ ev' = e
    /\ UNCHANGED <<data_dir, SYSTEMS, synced, written, wal_ref>>

\* CopyBothResponse reached the replica; streaming starts at the beginning
\* of the segment.
SendCopy(c) ==
    /\ conn[c].pc = "send_copy"
    /\ conn' = [conn EXCEPT ![c].pc = "repl", ![c].out = NoMsg,
                            ![c].start_pos = @ - XLogSegmentOffset(@, conn[c].wal_seg_size)]
    /\ ev' = [Ev("SendCopy", c) EXCEPT !.msg = conn[c].out, !.system = conn[c].system]
    /\ UNCHANGED <<data_dir, SYSTEMS, synced, written, wal_ref>>

\* Recovery goes on at the stop position.
RecoveryFinishedPast(start_pos, stop_pos) == start_pos > stop_pos

\* if start_pos >= stop_pos { /* recovery finished */ break; }
RecoveryFinished(start_pos, stop_pos) == start_pos >= stop_pos

\* recovery mode: stream up to the specified LSN
SenderRecovery(c) ==
    /\ conn[c].pc = "repl"
    /\ conn[c].stop_pos # 0
    /\ IF RecoveryFinished(conn[c].start_pos, conn[c].stop_pos)
       THEN /\ conn' = End(c, conn)
            /\ ev' = [Ev("SenderRecovery", c) EXCEPT !.result = "end", !.system = conn[c].system]
       ELSE /\ conn' = [conn EXCEPT ![c].pc = "have_end", ![c].end_pos = conn[c].stop_pos]
            /\ ev' = [Ev("SenderRecovery", c) EXCEPT !.system = conn[c].system]
    /\ UNCHANGED <<data_dir, SYSTEMS, synced, written, wal_ref>>

\* The handle is registered only when it is awaited.
RegisteredLate == "none"

\* let notified = system.cond.notified(): the handle receives the
\* notify_waiters() calls made from its creation on.
Registered == "created"

\* normal mode: the wait handle is created before the mutex is taken.
SenderRegister(c) ==
    /\ conn[c].pc = "repl"
    /\ conn[c].stop_pos = 0
    /\ conn' = [conn EXCEPT ![c].pc = "check", ![c].notified = Registered]
    /\ ev' = [Ev("SenderRegister", c) EXCEPT !.system = conn[c].system]
    /\ UNCHANGED <<data_dir, SYSTEMS, synced, written, wal_ref>>

\* The guard lives until notified.await has returned.
GuardHeldAcrossAwait == TRUE

\* The guard shared_state is bound inside the braces of the inner loop and
\* dropped at their end, before notified.await.
GuardAtAwait == FALSE

\* The sender goes on when it has caught up with commit_lsn.
HasDataAtEnd(start_pos, commit_lsn) == start_pos <= commit_lsn

\* if start_pos < commit_lsn
HasData(start_pos, commit_lsn) == start_pos < commit_lsn

\* commit_lsn is read under the mutex and compared with start_pos.
SenderCheck(c) ==
    /\ conn[c].pc = "check"
    /\ MutexFree(conn[c].system)
    /\ LET commit_lsn == SYSTEMS[conn[c].system].commit_lsn
       IN  conn' = [conn EXCEPT ![c] =
                IF HasData(conn[c].start_pos, commit_lsn)
                THEN [@ EXCEPT !.pc = "have_end", !.commit_lsn = commit_lsn,
                               !.end_pos = commit_lsn, !.notified = "none"]
                ELSE [@ EXCEPT !.pc = "await", !.commit_lsn = commit_lsn,
                               !.guard = GuardAtAwait]]
    /\ ev' = [Ev("SenderCheck", c) EXCEPT !.system = conn[c].system]
    /\ UNCHANGED <<data_dir, SYSTEMS, synced, written, wal_ref>>

\* notified.await: the poll of a handle that notify_waiters() completed returns
\* and the inner loop starts over; the poll of a handle not yet registered
\* registers it.
SenderAwait(c) ==
    /\ conn[c].pc = "await"
    /\ conn[c].notified # "created"
    /\ conn' = IF conn[c].notified = "fired"
               THEN [conn EXCEPT ![c].pc = "repl", ![c].notified = "none"]
               ELSE [conn EXCEPT ![c].notified = "created"]
    /\ ev' = [Ev("SenderAwait", c) EXCEPT !.system = conn[c].system]
    /\ UNCHANGED <<data_dir, SYSTEMS, synced, written, wal_ref>>


\* What the non-blocking read of the replica's socket finds.
NoFeedback == [type |-> "WouldBlock"]
PeerClosed == [type |-> "closed"]
Feedbacks == {NoFeedback, PeerClosed,
              [type |-> "CopyData", ts |-> 1, xmin |-> 5, catalog_xmin |-> 7]}

\* System::add_hs_feedback
add_hs_feedback(sys, feedback) ==
    [sys EXCEPT !.hs_feedback =
        [ts |-> Max(@.ts, feedback.ts),
         xmin |-> Min(@.xmin, feedback.xmin),
         catalog_xmin |-> Min(@.catalog_xmin, feedback.catalog_xmin)]]

\* The file File::open finds for the segment of start_pos: the .partial
\* variant first, the finalized name otherwise.  The handle reads on from its
\* position `pos` and follows the file through a rename.
OpenSegment(dir, timeline, segno) ==
    IF SegmentExists(dir, timeline, segno)
    THEN [type |-> "file", tli |-> timeline, segno |-> segno, pos |-> 0]
    ELSE NoInput

\* The marker is streamed like any other position.
IsEndMarkerNever(end_pos) == FALSE

\* if end_pos == END_REPLICATION_MARKER { break; }
IsEndMarker(end_pos) == end_pos = END_REPLICATION_MARKER

\* System::_stop_wal_senders: notify_wal_senders(END_REPLICATION_MARKER).
\* Nothing in the file calls it; it is the shutdown path of the tenant.
stop_wal_senders(sid) ==
    /\ sid \in DOMAIN SYSTEMS
    /\ MutexFree(sid)
    /\ LET sys == notify_wal_senders(SYSTEMS[sid], END_REPLICATION_MARKER)
       IN  /\ SYSTEMS' = [SYSTEMS EXCEPT ![sid] = sys]
           /\ conn' = IF sys # SYSTEMS[sid] THEN notify_waiters(conn, sid) ELSE conn
    /\ ev' = [Ev("stop_wal_senders", 0) EXCEPT !.system = sid, !.notify = END_REPLICATION_MARKER]
    /\ UNCHANGED <<data_dir, synced, written, wal_ref>>

\* One pass of the streaming loop from the end position to the frame handed
\* to the socket: the shutdown marker, the replica's feedback, the segment
\* file, and the XLogData message.
SenderFrame(c, feedback) ==
    /\ conn[c].pc = "have_end"
    /\ LET sid == conn[c].system
           start_pos == conn[c].start_pos
           end_pos == conn[c].end_pos
           e == [Ev("SenderFrame", c) EXCEPT !.system = sid, !.input = feedback]
           file == IF conn[c].wal_file # NoInput THEN conn[c].wal_file
                   ELSE OpenSegment(data_dir[sid].wal, conn[c].timeline,
                                    XLByteToSeg(start_pos, conn[c].wal_seg_size))
           send_size == Min(end_pos - start_pos, MAX_SEND_SIZE)
           content == data_dir[sid].wal[SegmentFile(data_dir[sid].wal, file.tli, file.segno)]
       IN  IF IsEndMarker(end_pos) \/ feedback = PeerClosed
           THEN /\ feedback = IF IsEndMarker(end_pos) THEN NoFeedback ELSE PeerClosed
                /\ conn' = End(c, conn)
                /\ ev' = [e EXCEPT !.result = "end"]
                /\ UNCHANGED SYSTEMS
           ELSE /\ SYSTEMS' = IF feedback.type = "CopyData"
                              THEN [SYSTEMS EXCEPT ![sid] = add_hs_feedback(@, feedback)]
                              ELSE SYSTEMS
                /\ IF file = NoInput \/ file.pos + send_size > Len(content)
                   THEN \* File::open or read_exact fails
                        /\ conn' = End(c, conn)
                        /\ ev' = [e EXCEPT !.result = "error"]
                   ELSE /\ conn' = [conn EXCEPT ![c] =
                              [@ EXCEPT !.pc = "send_frame",
                                        !.wal_file = [file EXCEPT !.pos = @ + send_size],
                                        !.out = [type |-> "XLogData",
                                                 start_pos |-> start_pos,
                                                 end_pos |-> end_pos,
                                                 data |-> SubSeq(content, file.pos + 1,
                                                                 file.pos + send_size)]]]
                        /\ ev' = e
    /\ UNCHANGED <<data_dir, synced, written, wal_ref>>

\* The handle is kept for the next frame wherever that starts.
KeepFileAlways(start_pos, wal_seg_size) == TRUE

\* if XLogSegmentOffset(start_pos, wal_seg_size) != 0 { wal_file = Some(file); }
KeepFile(start_pos, wal_seg_size) == XLogSegmentOffset(start_pos, wal_seg_size) # 0

\* The frame reached the replica: start_pos advances, and the segment file
\* is kept unless start_pos is now at a segment boundary.
SenderSendFrame(c) ==
    /\ conn[c].pc = "send_frame"
    /\ LET start_pos == conn[c].start_pos + Len(conn[c].out.data)
       IN  conn' = [conn EXCEPT ![c] =
                [@ EXCEPT !.pc = "repl", !.out = NoMsg, !.start_pos = start_pos,
                          !.wal_file = IF KeepFile(start_pos, conn[c].wal_seg_size)
                                       THEN @ ELSE NoInput]]
    /\ ev' = [Ev("SenderSendFrame", c) EXCEPT !.msg = conn[c].out, !.system = conn[c].system]
    /\ UNCHANGED <<data_dir, SYSTEMS, synced, written, wal_ref>>


(***************************************************************************)
(* The ingest protocol: two proposer connections to one safekeeper that    *)
(* may die and be started again.                                           *)
(***************************************************************************)
\* What the proposers send.
ServerInfos == {ServerInfo(pv, id) : pv \in {SK_PROTOCOL_VERSION, SK_PROTOCOL_VERSION + 1},
                                     id \in {0, TENANT}}
RequestVotes == {RequestVote(id, 0, 1) : id \in ProposerIds}
SafeKeeperRequests ==
    {SafeKeeperRequest(id, b, b + 1, 0, 0) : id \in ProposerIds, b \in {END_OF_STREAM, 1}}

Next ==
    \/ \E c \in Ingests : AcceptIngest(c)
    \/ \E c \in Ingests : ConnError(c)
    \/ \E c \in Ingests, server_info \in ServerInfos : IngestServerInfo(c, server_info)
    \/ \E c \in Ingests : IngestSendInfo(c)
    \/ \E c \in Ingests, prop \in RequestVotes, io \in IoOutcomes : IngestVote(c, prop, io)
    \/ \E c \in Ingests : IngestSendReject(c)
    \/ \E c \in Ingests : IngestSendAck(c)
    \/ \E c \in Ingests, req \in SafeKeeperRequests, io \in IoOutcomes, wal_err \in {-1, 0} :
           IngestRequest(c, req, io, wal_err)
    \/ \E c \in Ingests : IngestSendResp(c)
    \/ Crash

Spec == Init /\ [][Next]_vars


(***************************************************************************)
(* The streaming loop: one proposer connection at a time, with requests    *)
(* that move every field of the safekeeper's info, and restarts.           *)
(***************************************************************************)
StreamProposers == {NodeId(1, 0), NodeId(MaxTerm, 0)}
StreamVotes == {RequestVote(id, vcl, epoch) :
                   id \in StreamProposers, vcl \in {0, XLOG_BLCKSZ}, epoch \in 0..1}
StreamRequests ==
    {SafeKeeperRequest(id, b, b + n, restart, commit) :
        id \in StreamProposers, b \in {END_OF_STREAM, 1}, n \in 1..XLOG_BLCKSZ,
        restart \in {0, WAL_SEG_SIZE, WAL_SEG_SIZE + 1}, commit \in {0, XLOG_BLCKSZ}}

NextStream ==
    \/ AcceptIngest(1)
    \/ ConnError(1)
    \/ IngestServerInfo(1, ServerInfo(SK_PROTOCOL_VERSION, TENANT))
    \/ IngestSendInfo(1)
    \/ \E prop \in StreamVotes, io \in IoOutcomes : IngestVote(1, prop, io)
    \/ IngestSendReject(1)
    \/ IngestSendAck(1)
    \/ \E req \in StreamRequests, io \in IoOutcomes, wal_err \in {-1, 0} :
           IngestRequest(1, req, io, wal_err)
    \/ IngestSendResp(1)
    \/ Crash

SpecStream == Init /\ [][NextStream]_vars


(***************************************************************************)
(* Ingest and egress together: a proposer connection that advances         *)
(* commit_lsn and a replica connection that streams up to it.              *)
(***************************************************************************)
NotifyProposer == NodeId(1, 0)
NotifyRequests ==
    {SafeKeeperRequest(NotifyProposer, b, b + n, 0, commit) :
        b \in {END_OF_STREAM, 1}, n \in 1..XLOG_BLCKSZ, commit \in {0, 1, MaxLsn}}

NextNotify ==
    \/ AcceptIngest(1)
    \/ \E c \in {1, 3} : ConnError(c)
    \/ IngestServerInfo(1, ServerInfo(SK_PROTOCOL_VERSION, TENANT))
    \/ IngestSendInfo(1)
    \/ IngestVote(1, RequestVote(NotifyProposer, 0, 1), "ok")
    \/ IngestSendAck(1)
    \/ \E req \in NotifyRequests : IngestRequest(1, req, "ok", -1)
    \/ IngestSendResp(1)
    \/ AcceptEgress(3)
    \/ \E id \in {0, TENANT} : EgressStartup(3, id)
    \/ \E start_pos \in ReplStarts, stop_pos \in ReplStops : StartReplication(3, start_pos, stop_pos)
    \/ SendCopy(3)
    \/ SenderRecovery(3)
    \/ SenderRegister(3)
    \/ SenderCheck(3)
    \/ SenderAwait(3)
    \/ \E feedback \in Feedbacks : SenderFrame(3, feedback)
    \/ SenderSendFrame(3)

SpecNotify == Init /\ [][NextNotify]_vars

\* The runtime polls a task that is ready to run: a sender that can take its
\* next step between two awaits takes it, and a sender whose wait handle was
\* completed is polled again.
SenderFairness ==
    /\ WF_vars(SenderRegister(3))
    /\ WF_vars(SenderCheck(3))
    /\ WF_vars(SenderAwait(3))

SpecNotifyFair == SpecNotify /\ SenderFairness


(***************************************************************************)
(* Properties of the notifier.                                             *)
(***************************************************************************)
\* The sender c waits on its handle: it registered, read a commit_lsn not
\* above its start_pos, and the tenant's commit_lsn has since become L,
\* above start_pos.
WaitsBelow(c, L) ==
    /\ conn[c].pc = "await"
    /\ conn[c].commit_lsn <= conn[c].start_pos
    /\ conn[c].start_pos < L
    /\ SYSTEMS[conn[c].system].commit_lsn = L

\* C4 (lost-wakeup freedom): a normal-mode sender that registered its wait
\* handle and found start_pos >= commit_lsn has its handle completed by
\* every notify_wal_senders(L) with start_pos < L that follows, whether it
\* is already awaiting or not yet, and it goes on to stream with
\* end_pos >= L.
C4_NoLostWakeup ==
    \A c \in Egresses, L \in 1..MaxLsn :
        /\ [](WaitsBelow(c, L) => conn[c].notified = "fired")
        /\ WaitsBelow(c, L) ~> (conn[c].pc = "have_end" /\ conn[c].end_pos >= L)

\* A sender that was waiting has been notified of a commit_lsn above its
\* start_pos by the ingest task.
C4_Witness ==
    /\ ev.op = "IngestSendResp"
    /\ \E c \in Egresses :
          /\ WaitsBelow(c, ev.notify)
          /\ conn[c].notified = "fired"

\* C5 (commit_lsn is monotone): within a process the shared commit_lsn of a
\* tenant never decreases; a notify_wal_senders with a value not above it
\* leaves the tenant as it is and completes no wait handle; and the value a
\* sender reads is never below the one it read before.
C5_CommitLsnMonotone ==
    [][/\ \A sid \in DOMAIN SYSTEMS :
             /\ sid \in DOMAIN SYSTEMS'
             /\ SYSTEMS[sid].commit_lsn <= SYSTEMS'[sid].commit_lsn
             /\ (ev'.op = "IngestSendResp" /\ ev'.system = sid
                 /\ ev'.notify <= SYSTEMS[sid].commit_lsn)
                => /\ SYSTEMS'[sid] = SYSTEMS[sid]
                   /\ \A c \in Conns : conn'[c].notified = conn[c].notified
       /\ \A c \in Egresses :
             (ev'.op = "SenderCheck" /\ ev'.c = c)
             => conn[c].commit_lsn <= conn'[c].commit_lsn]_vars

\* notify_wal_senders was called with a value below the tenant's commit_lsn
\* while a sender was waiting, and the sender still waits.
C5_Witness ==
    /\ ev.op = "IngestSendResp"
    /\ ev.notify < SYSTEMS[ev.system].commit_lsn
    /\ \E c \in Egresses : conn[c].pc = "await" /\ conn[c].notified = "created"

(***************************************************************************)
(* Properties of the ingest protocol.                                      *)
(***************************************************************************)
\* The record the control file of a tenant holds on disk (what survived fsync).
Persisted(dirs, sid) == ControlRecord(dirs[sid].durable)

\* C1 (vote safety): once a node_id N is on disk in the control file of a
\* tenant, the node_id on disk never becomes smaller than N, and no request
\* whose sender_id is smaller than N (term first, then uuid) makes
\* write_wal_file write a byte or touch a segment file of the tenant.
C1_VoteSafety ==
    [][\A sid \in DOMAIN data_dir :
          LET N == Persisted(data_dir, sid).info.server.node_id
          IN  Persisted(data_dir, sid).ok =>
                /\ sid \in DOMAIN data_dir'
                /\ Persisted(data_dir', sid).ok
                /\ ~NodeIdLess(Persisted(data_dir', sid).info.server.node_id, N)
                /\ (/\ ev'.op = "IngestRequest"
                    /\ ev'.system = sid
                    /\ NodeIdLess(ev'.input.sender_id, N))
                   => /\ ~ev'.wal_write
                      /\ data_dir'[sid].wal = data_dir[sid].wal]_vars

\* A request that carries WAL bytes and names a sender smaller than the
\* node_id on disk was received, and nothing was written.
C1_Witness ==
    /\ ev.op = "IngestRequest"
    /\ ev.input.begin_lsn # END_OF_STREAM
    /\ ev.input.end_lsn > ev.input.begin_lsn
    /\ Persisted(data_dir, ev.system).ok
    /\ NodeIdLess(ev.input.sender_id, Persisted(data_dir, ev.system).info.server.node_id)
    /\ ev.result = "error"
    /\ ~ev.wal_write

\* C2 (vote reject): a RequestVote whose node_id is smaller than the tenant's
\* stored node_id is answered with the stored node_id and nothing else: the
\* shared info, the control file and the WAL files stay as they are, and the
\* connection ends with an error once the answer is sent, so it never
\* reaches the streaming loop.
C2_VoteReject ==
    [][\A c \in Ingests :
          /\ (/\ conn[c].pc = "wait_vote"
              /\ ev'.op = "IngestVote"
              /\ ev'.c = c
              /\ NodeIdLess(ev'.input.node_id, SYSTEMS[conn[c].system].info.server.node_id))
             => /\ conn'[c].pc = "send_reject"
                /\ conn'[c].out = [type |-> "NodeId",
                                   node_id |-> SYSTEMS[conn[c].system].info.server.node_id]
                /\ UNCHANGED <<SYSTEMS, data_dir>>
          /\ (conn[c].pc = "send_reject" /\ ev'.c = c)
             => /\ conn'[c].pc = "idle"
                /\ ev'.result = "error"
                /\ ev'.op = "IngestSendReject" => ev'.msg = conn[c].out
                /\ UNCHANGED <<SYSTEMS, data_dir>>]_vars

\* A rejection with the stored node_id reached a proposer that asked for a
\* smaller one.
C2_Witness ==
    /\ ev.op = "IngestSendReject"
    /\ ev.result = "error"
    /\ ev.msg.node_id = SYSTEMS[ev.system].info.server.node_id
    /\ NodeIdLess(ev.input.node_id, ev.msg.node_id)

\* C3 (vote accept ordering): a RequestVote whose node_id is not smaller than
\* the stored one either fails on the control file, and then no answer is
\* sent, or leaves the proposed node_id in the shared info and on disk in the
\* control file before the echo is handed to the socket; whenever the echo
\* reaches the proposer, the control file on disk holds the echoed node_id.
C3_VoteAccept ==
    [][\A c \in Ingests :
          /\ (/\ conn[c].pc = "wait_vote"
              /\ ev'.op = "IngestVote"
              /\ ev'.c = c
              /\ ~NodeIdLess(ev'.input.node_id, SYSTEMS[conn[c].system].info.server.node_id))
             => \/ /\ conn'[c].pc = "send_ack"
                   /\ conn'[c].out = [type |-> "NodeId", node_id |-> ev'.input.node_id]
                   /\ SYSTEMS'[conn[c].system].info.server.node_id = ev'.input.node_id
                   /\ Persisted(data_dir', conn[c].system).ok
                   /\ Persisted(data_dir', conn[c].system).info = SYSTEMS'[conn[c].system].info
                \/ /\ conn'[c].pc = "idle"
                   /\ ev'.result = "error"
                   /\ ev'.msg = NoMsg
          /\ (ev'.op = "IngestSendAck" /\ ev'.c = c)
             => /\ Persisted(data_dir, conn[c].system).ok
                /\ Persisted(data_dir, conn[c].system).info.server.node_id = ev'.msg.node_id]_vars

\* The echo of an accepted vote was sent, and the vote is on disk.
C3_Witness ==
    /\ ev.op = "IngestSendAck"
    /\ ev.msg = [type |-> "NodeId", node_id |-> ev.input.node_id]
    /\ Persisted(data_dir, ev.system).ok
    /\ Persisted(data_dir, ev.system).info.server.node_id = ev.input.node_id

C7_EpochSwitchPersisted ==
    (/\ ev.op = "IngestRequest"
     /\ ev.epoch_switch
     /\ ev.ctl_sync
     /\ ev.result = "ok")
    => /\ Persisted(data_dir, ev.system).ok
       /\ Persisted(data_dir, ev.system).info.epoch = conn[ev.c].prop.epoch
       /\ Persisted(data_dir, ev.system).info.flush_lsn = ev.input.end_lsn

\* C8 (control-store round trip): when the last write of a tenant's control
\* file was a save_control_file(true) that returned with shared info I, the
\* load_control_file of the next process leaves exactly I in the shared info.
C8_RoundTrip ==
    (/\ ev.op = "IngestServerInfo"
     /\ ev.result # "panic"
     /\ ev.system \in DOMAIN synced)
    => SYSTEMS[ev.system].info = synced[ev.system]

\* A control file saved with an accepted vote was loaded after a restart.
C8_Witness ==
    /\ ev.op = "IngestServerInfo"
    /\ ev.result = "ok"
    /\ ev.system \in DOMAIN synced
    /\ synced[ev.system].server.node_id \in ProposerIds
    /\ SYSTEMS[ev.system].info = synced[ev.system]


(***************************************************************************)
(* The segment writer on its own: write_wal_file called with every start   *)
(* position and buffer on the directory its earlier calls left.            *)
(***************************************************************************)
WalSegSizes == {XLOG_BLCKSZ, 2 * XLOG_BLCKSZ}
\* Buffers of alternating bytes 1 2 1 .. and 2 1 2 .., of every length.
Buffers == {[i \in 1..n |-> ((b + i) % 2) + 1] : n \in 1..MaxBufLen, b \in 0..1}

\* The segments whose finalized file exists.
Finalized(dir) == {n.segno : n \in {m \in DOMAIN dir : ~m.partial}}

InitWal ==
    /\ data_dir = Put(EmptyFn, TENANT, TenantDir_new)
    /\ SYSTEMS = Put(EmptyFn, TENANT, System_new(TENANT))
    /\ \E wal_seg_size \in WalSegSizes :
          conn = [c \in Conns |->
                    IF c = 1
                    THEN [Connection_new EXCEPT !.pc = "streaming", !.system = TENANT,
                                                !.timeline = FIRST_TIMELINE,
                                                !.wal_seg_size = wal_seg_size]
                    ELSE Connection_new]
    /\ synced = EmptyFn
    /\ written = EmptyFn
    /\ wal_ref = EmptyFn
    /\ ev = Ev("init", 0)

WalWrite(c, startpos, buf) ==
    /\ conn[c].pc = "streaming"
    /\ LET sid == conn[c].system
       IN  /\ data_dir' = [data_dir EXCEPT ![sid].wal =
                  write_wal_file(@, startpos, conn[c].timeline, conn[c].wal_seg_size, buf)]
           /\ wal_ref' = Put(wal_ref, sid, Overlay(RefOf(wal_ref, sid), startpos, buf))
           /\ ev' = [Ev("write_wal_file", c) EXCEPT
                        !.system = sid, !.wal_write = TRUE,
                        !.input = [type |-> "write", startpos |-> startpos, buf |-> buf,
                                   finalized |-> Finalized(data_dir[sid].wal)]]
    /\ UNCHANGED <<SYSTEMS, conn, synced, written>>

NextWal == \E startpos \in 0..MaxWalPos, buf \in Buffers : WalWrite(1, startpos, buf)

SpecWal == InitWal /\ [][NextWal]_vars

\* The last call of write_wal_file, as the formulas below see it.
LastWrite ==
    LET c == ev.c
        seg == conn[c].wal_seg_size
        startpos == ev.input.startpos
        endpos == ev.input.startpos + Len(ev.input.buf)
    IN  [dir |-> data_dir[ev.system].wal, tli |-> conn[c].timeline, seg |-> seg,
         startpos |-> startpos, endpos |-> endpos, buf |-> ev.input.buf,
         first |-> XLByteToSeg(startpos, seg),
         \* the segment of the last byte written
         last |-> XLByteToSeg(endpos - 1, seg),
         ref |-> wal_ref[ev.system],
         finalized |-> ev.input.finalized]

\* C9: after a write_wal_file(start, buf) that succeeded, the bytes read at
\* the WAL positions [start, start + len(buf)) from the segment files, under
\* either name, are buf; and in every segment file each byte at a position
\* that no call has written is zero.
C9_ReadBack ==
    ev.op = "write_wal_file" =>
        LET w == LastWrite
        IN  /\ \A i \in 1..Len(w.buf) :
                  WalByteAt(w.dir, w.tli, w.seg, w.startpos + i - 1) = w.buf[i]
            /\ \A n \in DOMAIN w.dir : \A off \in 0..(Len(w.dir[n]) - 1) :
                  (n.segno * w.seg + off) \notin DOMAIN w.ref => w.dir[n][off + 1] = 0

\* A write that went across a segment boundary and into a segment created for it.
C9_Witness ==
    /\ ev.op = "write_wal_file"
    /\ LastWrite.first < LastWrite.last
    /\ XLogFileName(LastWrite.tli, LastWrite.last, TRUE) \in DOMAIN LastWrite.dir
    /\ XLogFileName(LastWrite.tli, LastWrite.first, FALSE) \in DOMAIN LastWrite.dir

\* The segments the last write filled up to their end.
Completed(w) == {s \in w.first..w.last : (s + 1) * w.seg <= w.endpos}

CompletedAreFinal(w) ==
    \A s \in Completed(w) :
        /\ XLogFileName(w.tli, s, FALSE) \in DOMAIN w.dir
        /\ XLogFileName(w.tli, s, TRUE) \notin DOMAIN w.dir
        /\ Len(w.dir[XLogFileName(w.tli, s, FALSE)]) = w.seg

\* The segment after the boundary received bytes and was not filled.
Spilled(w) == w.first < w.last /\ w.last \notin Completed(w)

RemainderIn(w, name) ==
    /\ name \in DOMAIN w.dir
    /\ Len(w.dir[name]) = w.seg
    /\ \A off \in 0..(w.seg - 1) :
          LET pos == w.last * w.seg + off
          IN  w.dir[name][off + 1] =
                  IF pos < w.endpos THEN w.buf[pos - w.startpos + 1]
                  ELSE IF pos \in DOMAIN w.ref THEN w.ref[pos] ELSE 0

\* C10 as stated: when a write reaches a segment boundary the completed
\* segment is there under its finalized name only, and the following segment,
\* if it received a byte, is a full-size .partial file with the remainder.
C10_FollowingIsPartial ==
    ev.op = "write_wal_file" =>
        LET w == LastWrite
        IN  /\ CompletedAreFinal(w)
            /\ Spilled(w) =>
                  /\ RemainderIn(w, XLogFileName(w.tli, w.last, TRUE))
                  /\ XLogFileName(w.tli, w.last, FALSE) \notin DOMAIN w.dir

\* C10, amended: when a write reaches a segment boundary the completed
\* segment is there under its finalized name only, and the following segment,
\* if it received a byte, is a full-size file with the remainder: a .partial
\* file, unless the segment had been finalized before the write, in which
\* case it stays the finalized file.
C10_Rollover ==
    ev.op = "write_wal_file" =>
        LET w == LastWrite
            was_final == w.last \in w.finalized
        IN  /\ CompletedAreFinal(w)
            /\ Spilled(w) =>
                  /\ RemainderIn(w, XLogFileName(w.tli, w.last, ~was_final))
                  /\ XLogFileName(w.tli, w.last, was_final) \notin DOMAIN w.dir

\* A straddling write whose first segment was renamed and whose second
\* segment is a new .partial file.
C10_Witness ==
    /\ ev.op = "write_wal_file"
    /\ Spilled(LastWrite)
    /\ LastWrite.first \notin LastWrite.finalized
    /\ XLogFileName(LastWrite.tli, LastWrite.first, FALSE) \in DOMAIN LastWrite.dir
    /\ XLogFileName(LastWrite.tli, LastWrite.last, TRUE) \in DOMAIN LastWrite.dir

(***************************************************************************)
(* Properties of the senders.                                              *)
(***************************************************************************)
\* C11 (committed prefix): a normal-mode sender that has an end position or
\* a frame in flight is below the commit_lsn it read under the mutex in this
\* iteration, and the frame it hands to the socket ends at or below that
\* commit_lsn.
C11_CommittedPrefix ==
    \A c \in Egresses :
        (conn[c].pc \in {"have_end", "send_frame"} /\ conn[c].stop_pos = 0)
        => /\ conn[c].start_pos < conn[c].commit_lsn
           /\ conn[c].end_pos = conn[c].commit_lsn
           /\ conn[c].pc = "send_frame"
              => /\ conn[c].out.start_pos = conn[c].start_pos
                 /\ conn[c].out.start_pos + Len(conn[c].out.data) <= conn[c].commit_lsn

\* A normal-mode sender hands a frame with WAL bytes to the socket.
C11_Witness ==
    \E c \in Egresses :
        /\ conn[c].pc = "send_frame"
        /\ conn[c].stop_pos = 0
        /\ Len(conn[c].out.data) > 0
        /\ conn[c].out.start_pos + Len(conn[c].out.data) = conn[c].commit_lsn

(***************************************************************************)
(* Shutdown of the senders: the ingest and egress connections of           *)
(* SpecNotify, and the tenant's stop_wal_senders.                          *)
(***************************************************************************)
StopRequests ==
    {SafeKeeperRequest(NotifyProposer, 1, 1 + n, 0, MaxLsn) : n \in 1..XLOG_BLCKSZ}

NextStop ==
    \/ AcceptIngest(1)
    \/ \E c \in {1, 3} : ConnError(c)
    \/ IngestServerInfo(1, ServerInfo(SK_PROTOCOL_VERSION, TENANT))
    \/ IngestSendInfo(1)
    \/ IngestVote(1, RequestVote(NotifyProposer, 0, 1), "ok")
    \/ IngestSendAck(1)
    \/ \E req \in StopRequests : IngestRequest(1, req, "ok", -1)
    \/ IngestSendResp(1)
    \/ AcceptEgress(3)
    \/ EgressStartup(3, TENANT)
    \/ \E start_pos \in ReplStarts : StartReplication(3, start_pos, 0)
    \/ SendCopy(3)
    \/ SenderRegister(3)
    \/ SenderCheck(3)
    \/ SenderAwait(3)
    \/ \E feedback \in Feedbacks : SenderFrame(3, feedback)
    \/ SenderSendFrame(3)
    \/ stop_wal_senders(TENANT)

\* A sender that can run runs, and a frame handed to the socket is taken by
\* the replica or the write fails.
StopFairness ==
    /\ SenderFairness
    /\ WF_vars(\E feedback \in Feedbacks : SenderFrame(3, feedback))
    /\ WF_vars(SenderSendFrame(3) \/ ConnError(3))

SpecStop == Init /\ [][NextStop]_vars /\ StopFairness

SenderLoopPcs == {"repl", "check", "await", "have_end", "send_frame"}

Stopped(sid) == sid \in DOMAIN SYSTEMS /\ SYSTEMS[sid].commit_lsn = END_REPLICATION_MARKER

PackValues == 0..MaxTerm \cup {256}
PackIds == {NodeId(t, u) : t \in PackValues, u \in PackValues}

InitPack ==
    /\ data_dir = EmptyFn
    /\ SYSTEMS = EmptyFn
    /\ conn = [c \in Conns |-> Connection_new]
    /\ synced = EmptyFn
    /\ written = EmptyFn
    /\ wal_ref = EmptyFn
    /\ \E a \in PackIds, b \in PackIds :
          ev = [Ev("init", 0) EXCEPT !.input = [a |-> a, b |-> b]]

PackPair ==
    /\ ev.op = "init"
    /\ ev' = [Ev("NodeId_pack", 0) EXCEPT
                 !.input = ev.input,
                 !.msg = [a |-> NodeId_pack(ev.input.a), b |-> NodeId_pack(ev.input.b)]]
    /\ UNCHANGED <<data_dir, SYSTEMS, conn, synced, written, wal_ref>>

NextPack == PackPair

SpecPack == InitPack /\ [][NextPack]_vars

\* memcmp(x, y) < 0 for byte strings of one length.
RECURSIVE BytesLess(_, _)
BytesLess(x, y) ==
    IF x = <<>> \/ y = <<>> THEN FALSE
    ELSE IF Head(x) # Head(y) THEN Head(x) < Head(y)
    ELSE BytesLess(Tail(x), Tail(y))

\* C14 (byte order of NodeId::pack): for all node ids a, b the packed bytes
\* of a are below the packed bytes of b under memcmp if and only if
\* (a.term, a.uuid) < (b.term, b.uuid), the order of the vote check.
C14_PackOrder ==
    ev.op = "NodeId_pack"
    => (BytesLess(ev.msg.a, ev.msg.b) <=> NodeIdLess(ev.input.a, ev.input.b))

(***************************************************************************)
(* Properties of the tenant registry.                                      *)
(***************************************************************************)
\* The last step called set_system with the id the connection named.
SetSystemStep(e) == e.op \in {"IngestServerInfo", "EgressStartup"}

RegistryState ==
    /\ \A sid \in DOMAIN SYSTEMS : sid # 0 /\ SYSTEMS[sid].id = sid
    /\ \A c \in Conns : conn[c].system # NoSystem => conn[c].system \in DOMAIN SYSTEMS
    /\ (SetSystemStep(ev) /\ ev.input.system_id # 0)
       => /\ ev.system = ev.input.system_id
          /\ ev.system \in DOMAIN SYSTEMS
          /\ conn[ev.c].system \in {ev.system, NoSystem}

RegistryStep ==
    /\ DOMAIN SYSTEMS \subseteq DOMAIN SYSTEMS'
    /\ \A c \in Conns :
          (conn[c].system # NoSystem /\ conn'[c].system # NoSystem)
          => conn'[c].system = conn[c].system
    /\ SetSystemStep(ev')
       => /\ \A sid \in DOMAIN SYSTEMS :
                /\ SYSTEMS'[sid].commit_lsn = SYSTEMS[sid].commit_lsn
                /\ SYSTEMS'[sid].hs_feedback = SYSTEMS[sid].hs_feedback
                /\ SYSTEMS[sid].control_file => SYSTEMS'[sid].control_file
          /\ ev'.input.system_id = 0
             => /\ DOMAIN SYSTEMS' = DOMAIN SYSTEMS
                /\ IF DOMAIN SYSTEMS = {}
                   THEN /\ ev'.result = "error"
                        /\ ev'.system = NoSystem
                        /\ conn'[ev'.c].system = NoSystem
                   ELSE ev'.system \in DOMAIN SYSTEMS

\* C15 (tenant registry): the registry maps each non-zero id it holds to the
\* one System made for it, which no later set_system replaces or removes;
\* a connection that names a non-zero id is bound to the System under that
\* id and stays bound to it; set_system(0) leaves the registry as it is,
\* binds to a registered tenant when there is one and fails when there is
\* none.
C15_TenantRegistry == []RegistryState /\ [][RegistryStep]_vars

\* An egress connection that named id 0 is bound to the tenant that the
\* ingest connection registered and is bound to, after WAL was committed.
C15_Witness ==
    /\ ev.op = "EgressStartup"
    /\ ev.input.system_id = 0
    /\ ev.system = TENANT
    /\ conn[ev.c].system = TENANT
    /\ conn[1].system = TENANT
    /\ SYSTEMS[TENANT].commit_lsn > 0

(***************************************************************************)
(* Properties of the positions kept by the ingest handler.                 *)
(***************************************************************************)
\* The ingest connections that have processed a request and hold its result.
Processed == {c \in Ingests : conn[c].pc = "send_resp"}

FreshAfterVote(c) ==
    /\ conn[c].pc = "streaming"
    /\ conn[c].prop.vcl = 0
    /\ conn[c].prop.epoch = 1
    /\ conn[c].my_info.epoch = 0
    /\ conn[c].my_info.flush_lsn = 0
    /\ data_dir[conn[c].system].wal = EmptyFn
    /\ SYSTEMS[conn[c].system].hs_feedback = System_new(conn[c].system).hs_feedback

\* The step is the handling of a request of one block at begin_lsn by the
\* proposer that was voted for, with restart_lsn = 0 and commit_lsn = 0.
FirstRecordStep(c, begin_lsn) ==
    /\ FreshAfterVote(c)
    /\ ev'.op = "IngestRequest"
    /\ ev'.c = c
    /\ ev'.input = SafeKeeperRequest(conn[c].prop.node_id, begin_lsn,
                                     begin_lsn + XLOG_BLCKSZ, 0, 0)
    /\ ev'.result # "error"

\* The record is in the WAL and the response of the scenario is on its way.
WrittenAndAnswered(c, begin_lsn) ==
    /\ ev'.result = "ok"
    /\ ev'.wal_write
    /\ \A p \in begin_lsn..(begin_lsn + XLOG_BLCKSZ - 1) :
          WalByteAt(data_dir'[conn[c].system].wal, conn[c].timeline, conn[c].wal_seg_size, p)
              = Payload(ev'.input)[p - begin_lsn + 1]
    /\ conn'[c].pc = "send_resp"
    /\ conn'[c].out = [type |-> "SafeKeeperResponse", epoch |-> 1,
                       flush_lsn |-> begin_lsn + XLOG_BLCKSZ,
                       hs_feedback |-> [ts |-> 0, xmin |-> U64_MAX, catalog_xmin |-> U64_MAX]]

\* C17 (ingest scenario): on a fresh tenant, after an accepted vote with
\* vcl = 0 and epoch = 1, the request begin_lsn = 0, end_lsn = 8192,
\* restart_lsn = 0, commit_lsn = 0 with its payload is written to the WAL and
\* answered with SafeKeeperResponse{epoch = 1, flush_lsn = 8192,
\* hs_feedback = {0, MAX, MAX}}.
C17_FirstRecordAtZero ==
    [][\A c \in Ingests : FirstRecordStep(c, 0) => WrittenAndAnswered(c, 0)]_vars

\* C17, as the code has it: the request at begin_lsn = 0 is the end-of-stream
\* marker and ends the connection with nothing written and nothing answered;
\* the same request at a begin_lsn above 0 is written and answered with
\* epoch = 1, flush_lsn = end_lsn and the initial hs_feedback.
C17_FirstRecord ==
    [][\A c \in Ingests :
          /\ FirstRecordStep(c, 0)
             => /\ ev'.result = "end"
                /\ ~ev'.wal_write
                /\ data_dir' = data_dir
                /\ conn'[c] = Connection_new
          /\ FirstRecordStep(c, 1) => WrittenAndAnswered(c, 1)]_vars

\* The first record of a tenant, at begin_lsn = 1, was written with the
\* epoch switch and its response is on its way.
C17_Witness ==
    \E c \in Ingests :
        /\ ev.op = "IngestRequest"
        /\ ev.c = c
        /\ ev.result = "ok"
        /\ ev.epoch_switch
        /\ ev.input.begin_lsn = 1
        /\ ev.input.end_lsn = 1 + XLOG_BLCKSZ
        /\ DOMAIN wal_ref[ev.system] = 1..XLOG_BLCKSZ
        /\ conn[c].out.type = "SafeKeeperResponse"
        /\ conn[c].out.epoch = 1
        /\ conn[c].out.flush_lsn = 1 + XLOG_BLCKSZ

(***************************************************************************)
(* The catch-up scenario: a replica that connects after the first record.  *)
(***************************************************************************)
\* The one record of the tenant ends at end_lsn, its request came with
\* commit_lsn = 0 and was acknowledged, and the normal-mode sender c of that
\* tenant, which got its CopyBothResponse and starts at 0, looks for data.
CatchUp(c, end_lsn) ==
    /\ conn[c].pc = "check"
    /\ conn[c].stop_pos = 0
    /\ conn[c].start_pos = 0
    /\ conn[c].system \in DOMAIN wal_ref
    /\ \E i \in Ingests :
          /\ conn[i].system = conn[c].system
          /\ conn[i].pc = "streaming"
          /\ conn[i].req # NoInput
          /\ conn[i].req.commit_lsn = 0
          /\ conn[i].req.end_lsn = end_lsn
          /\ conn[i].my_info.flush_lsn = end_lsn
          /\ DOMAIN wal_ref[conn[c].system] = conn[i].req.begin_lsn..(end_lsn - 1)
    /\ SYSTEMS[conn[c].system].commit_lsn \in {0, end_lsn}

SenderCheckStep(c) == ev'.op = "SenderCheck" /\ ev'.c = c

\* C18 (replica catch-up): after an ingest request with commit_lsn = 0 was
\* written and acknowledged on a fresh tenant, a sender started by
\* START_REPLICATION 0/0 has the record to send, from 0 to the request's
\* end_lsn, without a further ingest request.
C18_CatchUpWithoutCommit ==
    [][\A c \in Egresses, end_lsn \in 1..MaxLsn :
          (CatchUp(c, end_lsn) /\ SenderCheckStep(c))
          => /\ conn'[c].pc = "have_end"
             /\ conn'[c].start_pos = 0
             /\ conn'[c].end_pos = end_lsn]_vars

\* C18, as the code has it: the acknowledgement of a request with
\* commit_lsn = 0 leaves the tenant's commit_lsn and every sender as they
\* are, and a normal-mode sender that looks for data while commit_lsn is not
\* above its position parks on the notifier with no frame; it has data, up
\* to commit_lsn, only once commit_lsn is above its position.
C18_CatchUpNeedsCommit ==
    [][/\ \A i \in Ingests :
             (ev'.op = "IngestSendResp" /\ ev'.c = i /\ conn[i].req.commit_lsn = 0)
             => /\ SYSTEMS'[conn[i].system].commit_lsn = SYSTEMS[conn[i].system].commit_lsn
                /\ \A c \in Egresses : conn'[c] = conn[c]
       /\ \A c \in Egresses :
             (conn[c].stop_pos = 0 /\ SenderCheckStep(c))
             => IF conn[c].start_pos < SYSTEMS[conn[c].system].commit_lsn
                THEN /\ conn'[c].pc = "have_end"
                     /\ conn'[c].end_pos = SYSTEMS[conn[c].system].commit_lsn
                ELSE /\ conn'[c].pc = "await"
                     /\ conn'[c].out = conn[c].out]_vars

\* The sender of the scenario has looked for data and is parked.
C18_Witness ==
    \E c \in Egresses :
        /\ ev.op = "SenderCheck"
        /\ ev.c = c
        /\ conn[c].pc = "await"
        /\ conn[c].stop_pos = 0
        /\ conn[c].start_pos = 0
        /\ SYSTEMS[conn[c].system].commit_lsn = 0
        /\ \E i \in Ingests :
              /\ conn[i].system = conn[c].system
              /\ conn[i].pc = "streaming"
              /\ conn[i].req # NoInput
              /\ conn[i].req.commit_lsn = 0
              /\ conn[i].my_info.flush_lsn = conn[i].req.end_lsn

(***************************************************************************)
(* The query loop of a replica next to a proposer connection.              *)
(***************************************************************************)
QueryRequests ==
    {SafeKeeperRequest(NotifyProposer, 1, 1 + n, 0, 0) : n \in 1..XLOG_BLCKSZ}

NextQuery ==
    \/ AcceptIngest(1)
    \/ \E c \in {1, 3} : ConnError(c)
    \/ IngestServerInfo(1, ServerInfo(SK_PROTOCOL_VERSION, TENANT))
    \/ IngestSendInfo(1)
    \/ IngestVote(1, RequestVote(NotifyProposer, 0, 1), "ok")
    \/ IngestSendAck(1)
    \/ \E req \in QueryRequests : IngestRequest(1, req, "ok", -1)
    \/ IngestSendResp(1)
    \/ AcceptEgress(3)
    \/ \E id \in {0, TENANT} : EgressStartup(3, id)
    \/ IdentifySystem(3)
    \/ IdentifySend(3)

SpecQuery == Init /\ [][NextQuery]_vars

\* The value of the row under the column of that name.
RowValue(out, name) ==
    LET names == out.messages[1].names
        i == CHOOSE k \in DOMAIN names : names[k] = name
    IN  out.messages[2].values[i]

\* C19 (IDENTIFY_SYSTEM): the reply is a row description, then one row that
\* holds, under the columns announced, the tenant's system id, the timeline,
\* the WAL end as high word / low word, and NULL, then CommandComplete and
\* ReadyForQuery; once it is sent the connection is in the query loop.
C19_IdentifySystem ==
    \A c \in Egresses :
        /\ conn[c].pc = "send_identify"
           => LET out == conn[c].out
                  scan == find_end_of_wal(data_dir[conn[c].system].wal,
                              SYSTEMS[conn[c].system].info.server.wal_seg_size, FALSE)
              IN  /\ Len(out.messages) = 4
                  /\ out.messages[1].names = <<"systemid", "timeline", "xlogpos", "dbname">>
                  /\ RowValue(out, "systemid") = to_string(conn[c].system)
                  /\ RowValue(out, "timeline") = to_string(scan.timeline)
                  /\ RowValue(out, "xlogpos") = FormatLsn(scan.lsn)
                  /\ RowValue(out, "dbname") = Null
                  /\ out.messages[3].type = "CommandComplete"
                  /\ out.messages[4].type = "ReadyForQuery"
        /\ (ev.op = "IdentifySend" /\ ev.c = c) => conn[c].pc = "query"

(***************************************************************************)
(* Properties of the control-file lock.                                    *)
(***************************************************************************)
\* C20 (the control file is locked once per process): a handshake of an
\* ingest connection for a tenant whose control file this process has
\* already opened and locked, by a connection that has ended or is still
\* active, does not fail on the lock and reaches the send of the
\* SafeKeeperInfo.
C20_LockedOncePerProcess ==
    [][\A c \in Ingests :
          (/\ ev'.op = "IngestServerInfo"
           /\ ev'.c = c
           /\ ev'.system # NoSystem
           /\ Locked(SYSTEMS, ev'.system)
           /\ ev'.input.protocol_version = SK_PROTOCOL_VERSION)
          => /\ ev'.result = "ok"
             /\ conn'[c].pc = "send_info"]_vars

(***************************************************************************)
(* Properties of one request of the streaming loop.                        *)
(***************************************************************************)
\* The step is the handling of a request read by the ingest connection c.
RequestStep(c) ==
    /\ conn[c].pc = "streaming"
    /\ ev'.op = "IngestRequest"
    /\ ev'.c = c

\* Nothing of the tenant and no other connection has changed.
Untouched(c) ==
    /\ data_dir' = data_dir
    /\ SYSTEMS' = SYSTEMS
    /\ ~ev'.wal_write
    /\ ~ev'.ctl_write
    /\ ev'.notify = -1
    /\ \A d \in Conns \ {c} : conn'[d] = conn[d]

\* C21 (end of stream): a request with begin_lsn = 0 from the proposer that
\* was voted for ends the connection without an error, whatever its other
\* positions: no WAL byte and no control file is written, the tenant's
\* commit_lsn stays, no response is prepared and no sender is notified.
C21_EndOfStream ==
    [][\A c \in Ingests :
          (/\ RequestStep(c)
           /\ ev'.input.begin_lsn = END_OF_STREAM
           /\ ev'.input.sender_id = conn[c].my_info.server.node_id)
          => /\ ev'.result = "end"
             /\ conn'[c] = Connection_new
             /\ Untouched(c)]_vars

\* A request with begin_lsn = 0, a non-zero length and a commit_lsn above 0
\* ended the stream while a sender of the tenant was parked.
C21_Witness ==
    /\ ev.op = "IngestRequest"
    /\ ev.result = "end"
    /\ ev.input.begin_lsn = END_OF_STREAM
    /\ ev.input.end_lsn > 0
    /\ ev.input.commit_lsn > 0
    /\ \E c \in Egresses : conn[c].pc = "await" /\ conn[c].system = ev.system

\* C22 (sender change): a request whose sender_id is not the node_id voted
\* for on this connection ends the connection with an error and nothing else:
\* no WAL byte and no control file is written, no response is prepared and
\* no sender is notified, also when the request has begin_lsn = 0.
C22_SenderChange ==
    [][\A c \in Ingests :
          (/\ RequestStep(c)
           /\ ev'.input.sender_id # conn[c].my_info.server.node_id)
          => /\ ev'.result = "error"
             /\ conn'[c] = Connection_new
             /\ Untouched(c)]_vars

\* A request with begin_lsn = 0 from another proposer was answered with the
\* error.
C22_Witness ==
    /\ ev.op = "IngestRequest"
    /\ ev.result = "error"
    /\ ev.input.begin_lsn = END_OF_STREAM
    /\ ~ev.wal_write
    /\ ev.system \in DOMAIN SYSTEMS
    /\ ev.input.sender_id # SYSTEMS[ev.system].info.server.node_id

\* The connection is in its streaming loop before and after the step.
InLoop(c) ==
    /\ conn[c].pc \in {"streaming", "send_resp"}
    /\ conn'[c].pc \in {"streaming", "send_resp"}

\* C23 (epoch switch): within one ingest connection the handler's epoch
\* changes only to prop.epoch and only on a request with epoch < prop.epoch
\* and end_lsn > max(flush_lsn before the request, prop.vcl); it never
\* decreases and, once it is prop.epoch, stays; every response carries the
\* handler's epoch, the one of the switching request included.
C23_EpochSwitch ==
    /\ [](\A c \in Ingests :
             conn[c].pc = "send_resp" => conn[c].out.epoch = conn[c].my_info.epoch)
    /\ [][\A c \in Ingests :
             /\ InLoop(c)
                => /\ conn'[c].my_info.epoch \in {conn[c].my_info.epoch, conn[c].prop.epoch}
                   /\ conn'[c].my_info.epoch >= conn[c].my_info.epoch
                   /\ conn'[c].prop = conn[c].prop
                   /\ conn[c].my_info.epoch = conn[c].prop.epoch
                      => conn'[c].my_info.epoch = conn[c].prop.epoch
             /\ (RequestStep(c) /\ conn'[c].pc = "send_resp")
                => LET switch ==
                          /\ conn[c].my_info.epoch < conn[c].prop.epoch
                          /\ ev'.input.end_lsn
                                 > Max(conn[c].my_info.flush_lsn, conn[c].prop.vcl)
                   IN  /\ ev'.epoch_switch = switch
                       /\ conn'[c].my_info.epoch =
                              IF switch THEN conn[c].prop.epoch ELSE conn[c].my_info.epoch
                       /\ conn'[c].out.epoch = conn'[c].my_info.epoch]_vars

\* A request that ends above a non-zero vcl switched the epoch and its
\* response carries prop.epoch.
C23_Witness ==
    \E c \in Ingests :
        /\ ev.op = "IngestRequest"
        /\ ev.c = c
        /\ ev.epoch_switch
        /\ conn[c].pc = "send_resp"
        /\ conn[c].prop.vcl > 0
        /\ conn[c].out.epoch = conn[c].prop.epoch
        /\ conn[c].my_info.flush_lsn > conn[c].prop.vcl

\* flushed_restart_lsn + wal_seg_size < req.restart_lsn at the request.
LazyRule(c) == conn[c].flushed_restart_lsn + conn[c].wal_seg_size < ev'.input.restart_lsn

\* The control file is fsynced on a request exactly when the epoch switched
\* on it or the restart-LSN rule holds, flushed_restart_lsn becomes the
\* request's restart_lsn exactly then, and nothing else in the loop changes
\* it.
SyncRule ==
    \A c \in Ingests :
        /\ (RequestStep(c) /\ ev'.result = "ok")
           => /\ ev'.ctl_sync = (ev'.epoch_switch \/ LazyRule(c))
              /\ conn'[c].flushed_restart_lsn =
                     IF ev'.ctl_sync THEN ev'.input.restart_lsn
                     ELSE conn[c].flushed_restart_lsn
        /\ (InLoop(c) /\ ~RequestStep(c))
           => conn'[c].flushed_restart_lsn = conn[c].flushed_restart_lsn

\* C24 (lazy restart-LSN durability): the control file is fsynced on a
\* request if and only if the epoch switched or flushed_restart_lsn +
\* wal_seg_size < req.restart_lsn, flushed_restart_lsn is set to the
\* request's restart_lsn exactly on those requests, and between two
\* consecutive fsyncs caused by the restart-LSN rule restart_lsn advanced by
\* more than wal_seg_size.
C24_LazyRestartSync ==
    [][/\ SyncRule
       /\ \A c \in Ingests :
             (/\ RequestStep(c)
              /\ ev'.result = "ok"
              /\ LazyRule(c)
              /\ conn[c].lazy_synced # NoInput)
             => ev'.input.restart_lsn > conn[c].lazy_synced.lsn + conn[c].wal_seg_size]_vars

\* C24, as the code has it: the fsync rule and the update of
\* flushed_restart_lsn as above; a fsync by the restart-LSN rule happens only
\* on a restart_lsn more than wal_seg_size above the restart_lsn of the last
\* request of the connection that fsynced, by either rule, or above 0 when
\* there was none.
C24_LazySyncSinceLastSync ==
    [][/\ SyncRule
       /\ \A c \in Ingests :
             (RequestStep(c) /\ ev'.result = "ok" /\ ev'.ctl_sync /\ ~ev'.epoch_switch)
             => /\ ev'.input.restart_lsn
                       > conn[c].flushed_restart_lsn + conn[c].wal_seg_size
                /\ conn'[c].flushed_restart_lsn = ev'.input.restart_lsn
                /\ conn'[c].lazy_synced = [lsn |-> ev'.input.restart_lsn]]_vars

\* A request fsynced by the restart-LSN rule alone, after an earlier fsync by
\* that rule in the same connection.
C24_Witness ==
    \E c \in Ingests :
        /\ ev.op = "IngestRequest"
        /\ ev.c = c
        /\ ev.result = "ok"
        /\ ev.ctl_sync
        /\ ~ev.epoch_switch
        /\ conn[c].flushed_restart_lsn = ev.input.restart_lsn
        /\ conn[c].my_info.epoch = conn[c].prop.epoch
        /\ conn[c].prop.epoch > 0

\* WAL holds the payload of the request at [begin_lsn, end_lsn).
Holds(dir, c, req) ==
    \A p \in req.begin_lsn..(req.end_lsn - 1) :
        WalByteAt(dir, conn[c].timeline, conn[c].wal_seg_size, p)
            = Payload(req)[p - req.begin_lsn + 1]

Recovering == {c \in Egresses : conn[c].stop_pos # 0}

\* The recovery-mode sender never looks at commit_lsn or the notifier, and
\* what it has to send ends at stop_pos.
RecoveryState ==
    \A c \in Recovering :
        /\ conn[c].pc \notin {"check", "await"}
        /\ conn[c].notified = "none"
        /\ conn[c].commit_lsn = 0
        /\ conn[c].pc \in {"have_end", "send_frame"}
           => /\ conn[c].end_pos = conn[c].stop_pos
              /\ conn[c].start_pos < conn[c].stop_pos
        /\ conn[c].pc = "send_frame"
           => /\ conn[c].out.start_pos = conn[c].start_pos
              /\ conn[c].out.end_pos = conn[c].stop_pos
              /\ Len(conn[c].out.data) >= 1

\* The steps of the recovery-mode sender, up to the decision of SenderFrame.
RecoverySteps(c) ==
    /\ (ev'.op = "SendCopy" /\ ev'.c = c)
       => /\ XLogSegmentOffset(conn'[c].start_pos, conn[c].wal_seg_size) = 0
          /\ conn'[c].start_pos <= conn[c].start_pos
          /\ conn[c].start_pos - conn'[c].start_pos < conn[c].wal_seg_size
    /\ (ev'.op = "SenderRecovery" /\ ev'.c = c)
       => IF conn[c].start_pos >= conn[c].stop_pos
          THEN ev'.result = "end" /\ conn'[c] = Connection_new
          ELSE conn'[c].pc = "have_end" /\ conn'[c].start_pos = conn[c].start_pos
    /\ (ev'.op = "SenderSendFrame" /\ ev'.c = c)
       => /\ conn'[c].start_pos = conn[c].out.start_pos + Len(conn[c].out.data)
          /\ conn'[c].pc = "repl"

\* The pass of the loop that builds the frame, for a replica that has not
\* closed the connection and with the segment read.
FrameStep(c) ==
    /\ ev'.op = "SenderFrame"
    /\ ev'.c = c
    /\ ev'.input # PeerClosed
    /\ ev'.result # "error"

WrittenStep(c) == RequestStep(c) /\ ev'.wal_write /\ ev'.result = "ok"

\* C27 (WAL writes only append): every request that is written starts at or
\* above the handler's flush_lsn, and no byte below that flush_lsn is
\* changed by it.
C27_AppendOnly ==
    [][\A c \in Ingests :
          WrittenStep(c)
          => /\ ev'.input.begin_lsn >= conn[c].my_info.flush_lsn
             /\ \A p \in 0..(conn[c].my_info.flush_lsn - 1) :
                   WalByteAt(data_dir'[conn[c].system].wal, conn[c].timeline,
                             conn[c].wal_seg_size, p)
                       = WalByteAt(data_dir[conn[c].system].wal, conn[c].timeline,
                                   conn[c].wal_seg_size, p)]_vars

\* C27, as the code has it: a request is written at its begin_lsn wherever
\* that is; afterwards the WAL holds its payload at [begin_lsn, end_lsn),
\* every byte outside that range is as before, every segment file that was
\* finalized is still finalized, and flush_lsn is the larger of the old
\* flush_lsn and end_lsn.
C27_WrittenInPlace ==
    [][\A c \in Ingests :
          WrittenStep(c)
          => LET old == data_dir[conn[c].system].wal
                 new == data_dir'[conn[c].system].wal
                 req == ev'.input
             IN  /\ Holds(new, c, req)
                 /\ \A p \in 0..(MaxLsn + XLOG_BLCKSZ) :
                       (p < req.begin_lsn \/ p >= req.end_lsn)
                       => (WalByteAt(old, conn[c].timeline, conn[c].wal_seg_size, p) # -1
                           => WalByteAt(new, conn[c].timeline, conn[c].wal_seg_size, p)
                                  = WalByteAt(old, conn[c].timeline, conn[c].wal_seg_size, p))
                 /\ Finalized(old) \subseteq Finalized(new)
                 /\ conn'[c].my_info.flush_lsn
                        = Max(conn[c].my_info.flush_lsn, req.end_lsn)]_vars

\* A request that ends below flush_lsn was written into a segment that is
\* finalized, in a WAL that also holds bytes of another proposer.
C27_Witness ==
    \E c \in Ingests :
        /\ ev.op = "IngestRequest"
        /\ ev.c = c
        /\ ev.result = "ok"
        /\ ev.wal_write
        /\ ev.input.end_lsn < conn[c].my_info.flush_lsn
        /\ XLByteToSeg(ev.input.begin_lsn, conn[c].wal_seg_size)
               \in Finalized(data_dir[ev.system].wal)
        /\ \E p \in DOMAIN wal_ref[ev.system] :
              wal_ref[ev.system][p] # ev.input.sender_id.term

(***************************************************************************)
(* A sender that follows a proposer over several frames: segments of two   *)
(* frames' length, records of the largest size, and a commit_lsn that is   *)
(* either the start or the end of the record.                              *)
(***************************************************************************)
SendSegSize == 2 * MAX_SEND_SIZE
SendWalEnd == 1 + 3 * MAX_SEND_SIZE
SendServerInfo == [ServerInfo(SK_PROTOCOL_VERSION, TENANT) EXCEPT !.wal_seg_size = SendSegSize]

\* The next record after flush_lsn; the first one starts at 1.
SendRequests(flush_lsn) ==
    LET begin_lsn == IF flush_lsn = 0 THEN 1 ELSE flush_lsn
    IN  {SafeKeeperRequest(NotifyProposer, begin_lsn, begin_lsn + MAX_SEND_SIZE, 0, commit) :
            commit \in {begin_lsn, begin_lsn + MAX_SEND_SIZE}}

NextSend ==
    \/ AcceptIngest(1)
    \/ IngestServerInfo(1, SendServerInfo)
    \/ IngestSendInfo(1)
    \/ IngestVote(1, RequestVote(NotifyProposer, 0, 1), "ok")
    \/ IngestSendAck(1)
    \/ \E req \in SendRequests(conn[1].my_info.flush_lsn) :
          /\ req.end_lsn <= SendWalEnd
          /\ IngestRequest(1, req, "ok", -1)
    \/ IngestSendResp(1)
    \/ AcceptEgress(3)
    \/ EgressStartup(3, TENANT)
    \/ StartReplication(3, 1, 0)
    \/ SendCopy(3)
    \/ SenderRegister(3)
    \/ SenderCheck(3)
    \/ SenderAwait(3)
    \/ SenderFrame(3, NoFeedback)
    \/ SenderSendFrame(3)

SpecSend == Init /\ [][NextSend]_vars

(***************************************************************************)
(* Properties of the frames of a sender.                                   *)
(***************************************************************************)
\* The pass of the loop that puts a frame on its way.
EmitStep(c) == FrameStep(c) /\ conn'[c].pc = "send_frame"

\* The positions of the sender's loop before the segment is read.
BetweenFrames == {"repl", "check", "await", "have_end"}

\* A segment handle held between two passes of the loop is the handle of the
\* segment of start_pos, and it stands at the offset of start_pos.
HandleAtStartPos ==
    \A c \in Egresses :
        (conn[c].pc \in BetweenFrames /\ conn[c].wal_file # NoInput)
        => /\ conn[c].wal_file.segno = XLByteToSeg(conn[c].start_pos, conn[c].wal_seg_size)
           /\ conn[c].wal_file.pos = XLogSegmentOffset(conn[c].start_pos, conn[c].wal_seg_size)

\* The bytes of the segment that holds pos, from the offset of pos on.
StoredAt(dir, timeline, wal_seg_size, pos, size) ==
    LET name == SegmentFile(dir, timeline, XLByteToSeg(pos, wal_seg_size))
        off == XLogSegmentOffset(pos, wal_seg_size)
    IN  IF name \in DOMAIN dir THEN SubSeq(dir[name], off + 1, off + size) ELSE <<>>

\* C28 (frame content): every frame a sender emits has
\* 1 <= send_size = min(end_pos - start_pos, MAX_SEND_SIZE), starts where
\* the previous frame ended, and carries the bytes stored at the offset of
\* start_pos in the segment that holds start_pos; the handle the sender
\* keeps between two frames stands at that offset.
C28_FrameContent ==
    /\ []HandleAtStartPos
    /\ [][\A c \in Egresses :
             /\ EmitStep(c)
                => LET frame == conn'[c].out
                       send_size == Len(frame.data)
                   IN  /\ send_size >= 1
                       /\ send_size <= MAX_SEND_SIZE
                       /\ send_size = Min(conn[c].end_pos - conn[c].start_pos, MAX_SEND_SIZE)
                       /\ frame.start_pos = conn[c].start_pos
                       /\ frame.end_pos = conn[c].end_pos
                       /\ frame.data = StoredAt(data_dir[conn[c].system].wal, conn[c].timeline,
                                                conn[c].wal_seg_size, conn[c].start_pos, send_size)
             /\ (ev'.op = "SenderSendFrame" /\ ev'.c = c)
                => conn'[c].start_pos = conn[c].out.start_pos + Len(conn[c].out.data)
             /\ (conn[c].pc \in BetweenFrames /\ conn'[c].pc \in SenderLoopPcs)
                => conn'[c].start_pos = conn[c].start_pos]_vars

\* A frame of the largest size is on its way that was read through the handle
\* kept from the frame before it, with more to send after it.
C28_Witness ==
    \E c \in Egresses :
        /\ conn[c].pc = "send_frame"
        /\ Len(conn[c].out.data) = MAX_SEND_SIZE
        /\ conn[c].out.end_pos - conn[c].out.start_pos > MAX_SEND_SIZE
        /\ XLogSegmentOffset(conn[c].out.start_pos, conn[c].wal_seg_size) # 0
        /\ conn[c].wal_file.pos = XLogSegmentOffset(conn[c].out.start_pos, conn[c].wal_seg_size)
                                    + MAX_SEND_SIZE

\* The pass of the loop that reads a segment for a frame.
ReadStep(c) ==
    /\ ev'.op = "SenderFrame"
    /\ ev'.c = c
    /\ ev'.input # PeerClosed
    /\ ev'.result # "end"

\* C29 (no frame crosses a segment boundary): whatever the commit_lsn values,
\* the range [start_pos, start_pos + send_size) the sender reads for a frame
\* lies within one segment, and the read does not run past the end of the
\* segment file.
C29_FrameInOneSegment ==
    [][\A c \in Egresses :
          ReadStep(c)
          => LET send_size == Min(conn[c].end_pos - conn[c].start_pos, MAX_SEND_SIZE)
             IN  /\ XLogSegmentOffset(conn[c].start_pos, conn[c].wal_seg_size) + send_size
                        <= conn[c].wal_seg_size
                 /\ ev'.result # "error"]_vars

(***************************************************************************)
(* Properties of the stored vote.                                          *)
(***************************************************************************)
\* The node_id of the record a control file holds.
VoteIn(file) == ControlRecord(file).info.server.node_id

\* Of two control files, the second does not hold a smaller node_id.
VoteKept(old, new) ==
    ControlRecord(old).ok
    => ControlRecord(new).ok /\ ~NodeIdLess(VoteIn(new), VoteIn(old))

\* The handshake read ServerInfo and has its SafeKeeperInfo to send.
SnapshotStep(c) == ev'.op = "IngestServerInfo" /\ ev'.c = c /\ ev'.result = "ok"

\* C30 (the vote never retrogrades): however the ingest handshakes of one
\* tenant interleave, the node_id in the tenant's shared info and the node_id
\* in its control file never decrease in the (term, uuid) order, and the
\* SafeKeeperInfo a handshake sends carries the stored node_id, not the one
\* of the ServerInfo it received.
C30_VoteNeverRetrogrades ==
    [][/\ \A sid \in DOMAIN SYSTEMS \cap DOMAIN SYSTEMS' :
              ~NodeIdLess(SYSTEMS'[sid].info.server.node_id, SYSTEMS[sid].info.server.node_id)
       /\ \A sid \in DOMAIN data_dir :
              /\ VoteKept(data_dir[sid].durable, data_dir'[sid].durable)
              /\ ev'.op # "Crash" => VoteKept(data_dir[sid].control, data_dir'[sid].control)
       /\ \A c \in Ingests :
              /\ SnapshotStep(c)
                 => /\ conn'[c].out.type = "SafeKeeperInfo"
                    /\ conn'[c].out.info.server.node_id
                           = SYSTEMS'[ev'.system].info.server.node_id
                    /\ ControlRecord(data_dir'[ev'.system].control).ok
                       => conn'[c].out.info.server.node_id
                              = VoteIn(data_dir'[ev'.system].control)
              /\ (ev'.op = "IngestSendInfo" /\ ev'.c = c) => ev'.msg = conn[c].out]_vars

\* A handshake sent a SafeKeeperInfo with the node_id an earlier handshake
\* stored, which is not the node_id of the ServerInfo it received, and a
\* second handshake for the tenant was begun while the first had its
\* snapshot and had not stored its vote.
C30_Witness ==
    /\ ev.op = "IngestServerInfo"
    /\ ev.result = "panic"
    /\ \E c \in Ingests :
          /\ conn[c].pc = "wait_vote"
          /\ conn[c].system = ev.system
          /\ conn[c].my_info.server.node_id = SYSTEMS[ev.system].info.server.node_id
          /\ conn[c].my_info.server.node_id = VoteIn(data_dir[ev.system].durable)
          /\ conn[c].my_info.server.node_id # ev.input.node_id
          /\ NodeIdLess(NodeId(0, 0), conn[c].my_info.server.node_id)

(***************************************************************************)
(* Properties of the commit position the senders read.                     *)
(***************************************************************************)
\* The end of the WAL the ingest connections of the process have written.
WrittenEnd(sid) ==
    LET ref == RefOf(wal_ref, sid)
    IN  IF DOMAIN ref = {} THEN 0
        ELSE 1 + CHOOSE p \in DOMAIN ref : \A q \in DOMAIN ref : q <= p

\* The step raised the commit position of the tenant.
CommitRaised(sid) ==
    /\ sid \in DOMAIN SYSTEMS'
    /\ ~Stopped(sid)'
    /\ SYSTEMS'[sid].commit_lsn > (IF sid \in DOMAIN SYSTEMS THEN SYSTEMS[sid].commit_lsn ELSE 0)

====
